---- MODULE Spec2Model ----
(***************************************************************************)
(* Realtek Otto SerDes PHY driver (phy-rtl-otto-serdes.c): the four        *)
(* register backends (RTL838x, RTL839x, RTL930x, RTL931x), the mode codec, *)
(* the event sequencer and the controller's lane operations, with several  *)
(* callers sharing one controller.                                         *)
(*                                                                         *)
(* Hardware words are 32 bit wide and are kept as the set of their set bit *)
(* positions (a subset of 0..31), so that & | ~ << >> are set operations   *)
(* of the full width.  C ints (arguments, return values, mode codes) are   *)
(* integers.                                                               *)
(***************************************************************************)
EXTENDS Integers, Sequences, FiniteSets, TLC

\* ---------------------------------------------------------------- errno
EINVAL == 22
EIO == 5
EACCES == 13

\* ------------------------------------------------------- phy-rtl-otto-serdes.h
RTSDS_EVENT_SETUP == 0
RTSDS_EVENT_INIT == 1
RTSDS_EVENT_POWER_ON == 2
RTSDS_EVENT_PRE_SET_MODE == 3
RTSDS_EVENT_POST_SET_MODE == 4
RTSDS_EVENT_PRE_RESET == 5
RTSDS_EVENT_POST_RESET == 6
RTSDS_EVENT_PRE_POWER_OFF == 7
RTSDS_EVENT_POST_POWER_OFF == 8
RTSDS_EVENT_MAX == 8

RTSDS_SEQ_STOP == 0
RTSDS_SEQ_MASK == 1
RTSDS_SEQ_WAIT == 2

RTSDS_838X_MAX_SDS == 5
RTSDS_838X_MAX_PAGE == 3
RTSDS_839X_MAX_SDS == 13
RTSDS_839X_MAX_PAGE == 11
RTSDS_930X_MAX_SDS == 11
RTSDS_930X_MAX_PAGE == 63
RTSDS_931X_MAX_SDS == 13
RTSDS_931X_MAX_PAGE == 191
RTSDS_931X_SDS_FORCE_SETUP == 128

\* ------------------------------------------------- 32 bit words as bit sets
Word == 0 .. 31

\* the bits of a non-negative C int
Bits(n) == {i \in 0 .. 30 : (n \div (2 ^ i)) % 2 = 1}

RECURSIVE Val(_)
\* the value of a word whose bit 31 is clear
Val(b) == IF b = {} THEN 0
          ELSE LET i == CHOOSE x \in b : TRUE IN (2 ^ i) + Val(b \ {i})

\* a word read into a C int (two's complement)
ToInt32(b) == IF 31 \in b THEN (Val(b \ {31}) - (2 ^ 30)) - (2 ^ 30) ELSE Val(b)

Shl(b, n) == {i + n : i \in b} \cap Word
Shr(b, n) == {i - n : i \in b} \cap Word
Not32(b) == Word \ b

\* x << n and x >> n with a run-time shift count.  A count outside 0..31 is
\* undefined in C: MIPS and x86 take the count modulo 32 ("wrap"), other
\* targets shift everything out ("zero").
ShlC(ub, b, n) == IF n \in Word THEN Shl(b, n)
                  ELSE IF ub = "wrap" THEN Shl(b, n % 32) ELSE {}
ShrC(ub, b, n) == IF n \in Word THEN Shr(b, n)
                  ELSE IF ub = "wrap" THEN Shr(b, n % 32) ELSE {}

\* & and | of non-negative C ints
And(a, b) == Val(Bits(a) \cap Bits(b))
Or(a, b) == Val(Bits(a) \cup Bits(b))

\* ------------------------------------------------------------- mode codec
RTSDS_COMBOMODE(mode, submode) ==
    Val(Bits(65536) \cup Shl(Bits(mode), 8) \cup Bits(submode))
\* fault variant: the mode field is taken 7 bits wide
RTSDS_MODE_narrow(combomode) == Val(Shr(Bits(combomode), 8) \cap Bits(127))

RTSDS_MODE(combomode) == Val(Shr(Bits(combomode), 8) \cap Bits(255))
RTSDS_SUBMODE(combomode) == Val(Bits(combomode) \cap Bits(255))

\* phy_interface_t of linux/phy.h (6.6), the symbols the tables use
PHY_INTERFACE_MODE_NA == 0
PHY_INTERFACE_MODE_SGMII == 4
PHY_INTERFACE_MODE_XGMII == 15
PHY_INTERFACE_MODE_QSGMII == 19
PHY_INTERFACE_MODE_100BASEX == 21
PHY_INTERFACE_MODE_1000BASEX == 22
PHY_INTERFACE_MODE_2500BASEX == 23
PHY_INTERFACE_MODE_10GBASER == 27
PHY_INTERFACE_MODE_USXGMII == 29
PHY_INTERFACE_MODE_QUSGMII == 31
PHY_INTERFACE_MODE_MAX == 33

Families == {"838x", "839x", "930x", "931x"}

\* an entry the initializer does not name is 0
MapOf(pairs) == [m \in 0 .. (PHY_INTERFACE_MODE_MAX - 1) |->
                    IF \E p \in pairs : p[1] = m
                    THEN (CHOOSE p \in pairs : p[1] = m)[2] ELSE 0]

rtsds_838x_conf ==
    [max_sds |-> RTSDS_838X_MAX_SDS, max_page |-> RTSDS_838X_MAX_PAGE,
     mode_map |-> MapOf({
        <<PHY_INTERFACE_MODE_NA, RTSDS_COMBOMODE(0, 0)>>,
        <<PHY_INTERFACE_MODE_1000BASEX, RTSDS_COMBOMODE(4, 1)>>,
        <<PHY_INTERFACE_MODE_100BASEX, RTSDS_COMBOMODE(5, 1)>>,
        <<PHY_INTERFACE_MODE_QSGMII, RTSDS_COMBOMODE(6, 0)>>})]

rtsds_839x_conf ==
    [max_sds |-> RTSDS_839X_MAX_SDS, max_page |-> RTSDS_839X_MAX_PAGE,
     mode_map |-> MapOf({
        <<PHY_INTERFACE_MODE_NA, RTSDS_COMBOMODE(0, 0)>>,
        <<PHY_INTERFACE_MODE_10GBASER, RTSDS_COMBOMODE(1, 0)>>,
        <<PHY_INTERFACE_MODE_1000BASEX, RTSDS_COMBOMODE(7, 0)>>,
        <<PHY_INTERFACE_MODE_100BASEX, RTSDS_COMBOMODE(8, 0)>>,
        <<PHY_INTERFACE_MODE_QSGMII, RTSDS_COMBOMODE(6, 0)>>,
        <<PHY_INTERFACE_MODE_SGMII, RTSDS_COMBOMODE(7, 5)>>})]

rtsds_930x_conf ==
    [max_sds |-> RTSDS_930X_MAX_SDS, max_page |-> RTSDS_930X_MAX_PAGE,
     mode_map |-> MapOf({
        <<PHY_INTERFACE_MODE_NA, RTSDS_COMBOMODE(31, 0)>>,
        <<PHY_INTERFACE_MODE_10GBASER, RTSDS_COMBOMODE(26, 0)>>,
        <<PHY_INTERFACE_MODE_2500BASEX, RTSDS_COMBOMODE(22, 0)>>,
        <<PHY_INTERFACE_MODE_1000BASEX, RTSDS_COMBOMODE(4, 0)>>,
        <<PHY_INTERFACE_MODE_USXGMII, RTSDS_COMBOMODE(13, 0)>>,
        <<PHY_INTERFACE_MODE_QUSGMII, RTSDS_COMBOMODE(13, 2)>>,
        <<PHY_INTERFACE_MODE_QSGMII, RTSDS_COMBOMODE(6, 0)>>})]

rtsds_931x_conf ==
    [max_sds |-> RTSDS_931X_MAX_SDS, max_page |-> RTSDS_931X_MAX_PAGE,
     mode_map |-> MapOf({
        <<PHY_INTERFACE_MODE_NA, RTSDS_COMBOMODE(31, 63)>>,
        <<PHY_INTERFACE_MODE_10GBASER, RTSDS_COMBOMODE(31, 53)>>,
        <<PHY_INTERFACE_MODE_1000BASEX, RTSDS_COMBOMODE(31, 57)>>,
        <<PHY_INTERFACE_MODE_USXGMII, RTSDS_COMBOMODE(13, 0)>>,
        <<PHY_INTERFACE_MODE_XGMII, RTSDS_COMBOMODE(16, 0)>>,
        <<PHY_INTERFACE_MODE_QSGMII, RTSDS_COMBOMODE(6, 0)>>})]

\* of_device_get_match_data: the descriptor of the compatible string
Conf(fam) == CASE fam = "838x" -> rtsds_838x_conf
               [] fam = "839x" -> rtsds_839x_conf
               [] fam = "930x" -> rtsds_930x_conf
               [] fam = "931x" -> rtsds_931x_conf

\* ------------------------------------------------------------ the hardware
(* A machine M is the hardware seen by one run of driver code:               *)
(*   mem   : address -> word, for the words written so far                   *)
(*   fill  : the word every other address holds                              *)
(*   fam   : the chip family; stuck: the indirect bus never clears busy      *)
(*   ub    : what the build does with an out-of-range shift count            *)
(*   io    : the ioread32/iowrite32 accesses of this run, in order           *)
(*   calls : the calls made through ctrl->conf, in order                     *)
(*   slept : the delay units handed to usleep_range by the sequencer         *)
(*   steps : the script records the sequencer has examined                   *)
(*   past  : the sequencer has read behind the memory of a script            *)
(*   oops  : the code has used a pointer that points to no object; the       *)
(*           kernel stops the thread there                                   *)
(* Addresses: <<"sw", x>> is RTSDS_REG(x), <<"sds", x>> is ctrl->base + x,   *)
(* <<"bus", k>> is the register behind the indirect bus that the command     *)
(* word k (opcode bits cleared) selects.                                     *)
Indirect(fam) == fam \in {"930x", "931x"}

Peek(M, a) == IF a \in DOMAIN M.mem THEN M.mem[a] ELSE M.fill

Put(mem, a, v) == [x \in (DOMAIN mem) \cup {a} |-> IF x = a THEN v ELSE mem[x]]

ioread32(M, a) == [M EXCEPT !.io = Append(@, <<"r", a>>)]

\* A write to the command register of an indirect family runs the command:
\* opcode 1 loads the data register from the selected register, opcode 3
\* stores the data register's low half into it; bit 0 stays set while busy.
BusKey(cmd) == <<"bus", Val(cmd \ {0, 1})>>

BusRun(M, cmd) ==
    IF M.stuck \/ 0 \notin cmd THEN Put(M.mem, <<"sds", 0>>, cmd)
    ELSE LET done == Put(M.mem, <<"sds", 0>>, cmd \ {0})
         IN  IF 1 \in cmd
             THEN Put(done, BusKey(cmd), Peek(M, <<"sds", 4>>) \cap (0 .. 15))
             ELSE Put(done, <<"sds", 4>>, Peek(M, BusKey(cmd)) \cap (0 .. 15))

iowrite32(M, v, a) ==
    [M EXCEPT !.io = Append(@, <<"w", a, v>>),
              !.mem = IF Indirect(M.fam) /\ a = <<"sds", 0>>
                      THEN BusRun(M, v) ELSE Put(M.mem, a, v)]

\* #define iomask32(mask, value, addr)
iomask32(M, mask, value, a) ==
    iowrite32(ioread32(M, a), (Peek(M, a) \cap Not32(mask)) \cup value, a)

Ret(M, r) == [m |-> M, ret |-> r]

Called(M, c) == [M EXCEPT !.calls = Append(@, c)]

\* ----------------------------------------------------------------- RTL838x
RTSDS_838X_SDS_MODE_SEL == <<"sw", 40>>
RTSDS_838X_INT_MODE_CTRL == <<"sw", 92>>

rtsds_838x_offset(sid, page, reg) ==
    IF page = 0 \/ page = 3
    THEN (sid * 512) + (page * 128) + (reg * 4)
    ELSE 2944 + (sid * 256) + (page * 128) + (reg * 4)

rtsds_838x_range(sid, page, reg) ==
    sid > RTSDS_838X_MAX_SDS \/ page > RTSDS_838X_MAX_PAGE \/ reg > 31

\* fault variant: the read without the extra read of the link status latch
rtsds_838x_read_once(M, sid, page, reg) ==
    IF rtsds_838x_range(sid, page, reg) THEN Ret(M, -EINVAL)
    ELSE LET a == <<"sds", rtsds_838x_offset(sid, page, reg)>>
         IN  Ret(ioread32(M, a), ToInt32(Peek(M, a)))

rtsds_838x_read(M, sid, page, reg) ==
    IF rtsds_838x_range(sid, page, reg) THEN Ret(M, -EINVAL)
    ELSE LET a == <<"sds", rtsds_838x_offset(sid, page, reg)>>
             M1 == IF page = 2 /\ reg = 1 THEN ioread32(M, a) ELSE M
         IN  Ret(ioread32(M1, a), ToInt32(Peek(M1, a)))

rtsds_838x_mask(M, sid, page, reg, val, mask) ==
    IF rtsds_838x_range(sid, page, reg) THEN Ret(M, -EINVAL)
    ELSE LET a == <<"sds", rtsds_838x_offset(sid, page, reg)>>
             M1 == IF page = 2 /\ reg = 1 THEN ioread32(M, a) ELSE M
         IN  Ret(iomask32(M1, Bits(mask), Bits(val), a), 0)

rtsds_838x_set_mode(M, sid, combomode) ==
    IF sid > RTSDS_838X_MAX_SDS THEN Ret(M, -EINVAL)
    ELSE LET mode == RTSDS_MODE(combomode)
             submode == RTSDS_SUBMODE(combomode)
             M1 == IF sid = 4 \/ sid = 5
                   THEN iomask32(M, Shl(Bits(7), (sid - 4) * 3),
                                 Shl(Bits(And(submode, 7)), (sid - 4) * 3),
                                 RTSDS_838X_INT_MODE_CTRL)
                   ELSE M
             shift == 25 - (sid * 5)
         IN  Ret(iomask32(M1, Shl(Bits(31), shift),
                          Shl(Bits(And(mode, 31)), shift),
                          RTSDS_838X_SDS_MODE_SEL), 0)

rtsds_838x_get_mode(M, sid) ==
    IF sid < 0 \/ sid > RTSDS_838X_MAX_SDS THEN Ret(M, -EINVAL)
    ELSE LET M1 == IF sid = 4 \/ sid = 5
                   THEN ioread32(M, RTSDS_838X_INT_MODE_CTRL) ELSE M
             submode == IF sid = 4 \/ sid = 5
                        THEN Val(Shr(Peek(M, RTSDS_838X_INT_MODE_CTRL),
                                     (sid - 4) * 3) \cap Bits(7))
                        ELSE 0
             shift == 25 - (sid * 5)
             mode == Val(Shr(Peek(M1, RTSDS_838X_SDS_MODE_SEL), shift)
                         \cap Bits(31))
         IN  Ret(ioread32(M1, RTSDS_838X_SDS_MODE_SEL),
                 RTSDS_COMBOMODE(mode, submode))

\* ----------------------------------------------------------------- RTL839x
RTSDS_839X_MAC_SERDES_IF_CTRL(offs) == <<"sw", 8 + offs>>

rtsds_839x_offset(sid, page, reg) ==
    LET offs == (And(sid, 254) * 512) + (And(reg, 254) * 2)
    IN  IF page < 4 THEN offs + (And(sid, 1) * 256) + (page * 64)
        ELSE IF page < 8
             THEN IF sid # 8 /\ sid # 12 THEN -1
                  ELSE offs + 256 + (page * 64)
        ELSE IF page < 10
             THEN IF sid \in {8, 9, 12, 13} THEN -1
                  ELSE offs + 256 + (And(sid, 1) * 128) + (page * 64)
        ELSE IF sid \notin {8, 9, 12, 13} THEN -1
             ELSE offs + 256 + (And(sid, 1) * 128) + ((page - 2) * 64)

\* fault variant: the range test without its register bound
rtsds_839x_range_noreg(sid, page, reg) ==
    sid > RTSDS_839X_MAX_SDS \/ page > RTSDS_839X_MAX_PAGE

rtsds_839x_range(sid, page, reg) ==
    sid > RTSDS_839X_MAX_SDS \/ page > RTSDS_839X_MAX_PAGE \/ reg > 31

rtsds_839x_read(M, sid, page, reg) ==
    IF rtsds_839x_range(sid, page, reg) THEN Ret(M, -EINVAL)
    ELSE LET offs == rtsds_839x_offset(sid, page, reg)
             shift == And(reg * 16, 16)
             a == <<"sds", offs>>
             M1 == IF page = 2 /\ reg = 1 THEN ioread32(M, a) ELSE M
         IN  IF offs < 0 THEN Ret(M, 0)
             ELSE Ret(ioread32(M1, a),
                      Val(Shr(Peek(M1, a), shift) \cap Bits(65535)))

rtsds_839x_mask(M, sid, page, reg, val, mask) ==
    IF rtsds_839x_range(sid, page, reg) THEN Ret(M, -EINVAL)
    ELSE LET offs == rtsds_839x_offset(sid, page, reg)
             a == <<"sds", offs>>
             M1 == IF page = 2 /\ reg = 1 THEN ioread32(M, a) ELSE M
             oldval == Peek(M1, a)
             newval == IF And(reg, 1) = 1
                       THEN (oldval \cap Not32(Shl(Bits(mask), 16)))
                                \cup Shl(Bits(val), 16)
                       ELSE (oldval \cap Not32(Bits(mask))) \cup Bits(val)
         IN  IF offs < 0 THEN Ret(M, 0)
             ELSE Ret(iowrite32(ioread32(M1, a), newval, a), 0)

rtsds_839x_set_mode(M, sid, combomode) ==
    IF sid > RTSDS_839X_MAX_SDS THEN Ret(M, -EINVAL)
    ELSE LET shift == And(sid, 7) * 4
             offs == And(sid \div 2, 12)
             mode == RTSDS_MODE(combomode)
             submode == RTSDS_SUBMODE(combomode)
             M1 == rtsds_839x_mask(M, sid, 0, 4,
                                   And(submode * 4096, 61440), 61440).m
         IN  Ret(iomask32(M1, Shl(Bits(15), shift),
                          Shl(Bits(And(mode, 15)), shift),
                          RTSDS_839X_MAC_SERDES_IF_CTRL(offs)), 0)

rtsds_839x_get_mode(M, sid) ==
    IF sid > RTSDS_839X_MAX_SDS THEN Ret(M, -EINVAL)
    ELSE LET shift == And(sid, 7) * 4
             offs == And(sid \div 2, 12)
             a == RTSDS_839X_MAC_SERDES_IF_CTRL(offs)
             Combine(r) ==
                 LET submode == And(r.ret \div 4096, 15)
                     mode == Val(Shr(Peek(r.m, a), shift) \cap Bits(15))
                 IN  Ret(ioread32(r.m, a), RTSDS_COMBOMODE(mode, submode))
         IN  Combine(rtsds_839x_read(M, sid, 0, 4))

\* ----------------------------------------------------------------- RTL930x
RTSDS_930X_SDS_MODE_SEL_0 == <<"sw", 404>>
RTSDS_930X_SDS_MODE_SEL_1 == <<"sw", 672>>
RTSDS_930X_SDS_MODE_SEL_2 == <<"sw", 676>>
RTSDS_930X_SDS_MODE_SEL_3 == <<"sw", 408>>
RTSDS_930X_SDS_SUBMODE_CTRL0 == <<"sw", 460>>
RTSDS_930X_SDS_SUBMODE_CTRL1 == <<"sw", 728>>

\* the command word (sid << 2) | (page << 7) | (reg << 13) | op
BusCmd(sid, page, reg, op) ==
    Shl(Bits(sid), 2) \cup Shl(Bits(page), 7) \cup Shl(Bits(reg), 13) \cup Bits(op)

\* while (--cnt && (ioread32(ctrl->base) & 1)) usleep_range(50, 60);
\* The busy bit does not change while the loop runs: when it is set the loop
\* reads cnt - 1 times and leaves cnt = 0, when it is clear the loop reads
\* once.  The result is the machine and the final cnt.
\* (BusPoll_once is the fault variant that gives up after one read.)
BusPoll_once(M, cnt) ==
    LET busy == 0 \in Peek(M, <<"sds", 0>>)
    IN  Ret([M EXCEPT !.io = Append(@, <<"r", <<"sds", 0>>>>)],
            IF busy THEN 0 ELSE cnt - 1)

BusPoll(M, cnt) ==
    LET busy == 0 \in Peek(M, <<"sds", 0>>)
        reads == IF cnt - 1 = 0 THEN 0 ELSE IF busy THEN cnt - 1 ELSE 1
    IN  Ret([M EXCEPT !.io = @ \o [i \in 1 .. reads |-> <<"r", <<"sds", 0>>>>]],
            IF busy THEN 0 ELSE cnt - 1)

\* the command/poll exchange of a read, after the range check
BusRead(M, cmd) ==
    LET Data(p) == IF p.ret # 0
                   THEN Ret(ioread32(p.m, <<"sds", 4>>),
                            Val(Peek(p.m, <<"sds", 4>>) \cap Bits(65535)))
                   ELSE Ret(p.m, -EIO)
    IN  Data(BusPoll(iowrite32(M, cmd, <<"sds", 0>>), 100))

\* the data write and command/poll exchange of a modify
BusWrite(M, cmd, val) ==
    LET Done(p) == Ret(p.m, IF p.ret # 0 THEN 0 ELSE -EIO)
    IN  Done(BusPoll(iowrite32(iowrite32(M, val, <<"sds", 4>>), cmd, <<"sds", 0>>),
                     100))

rtsds_930x_range(sid, page, reg) ==
    sid > RTSDS_930X_MAX_SDS \/ page > RTSDS_930X_MAX_PAGE \/ reg > 31

rtsds_930x_read(M, sid, page, reg) ==
    IF rtsds_930x_range(sid, page, reg) THEN Ret(M, -EINVAL)
    ELSE BusRead(M, BusCmd(sid, page, reg, 1))

\* fault variant: the modify writes the value as given whatever the mask
rtsds_930x_mask_unmerged(M, sid, page, reg, val, mask) ==
    IF rtsds_930x_range(sid, page, reg) THEN Ret(M, -EINVAL)
    ELSE BusWrite(M, BusCmd(sid, page, reg, 3), Bits(val))

rtsds_930x_mask(M, sid, page, reg, val, mask) ==
    IF rtsds_930x_range(sid, page, reg) THEN Ret(M, -EINVAL)
    ELSE LET Merge(r) ==
                 IF r.ret < 0 THEN Ret(r.m, -EIO)
                 ELSE BusWrite(r.m, BusCmd(sid, page, reg, 3),
                               Bits(val) \cup (Bits(r.ret) \cap Not32(Bits(mask))))
         IN  IF mask # 65535 THEN Merge(rtsds_930x_read(M, sid, page, reg))
             ELSE BusWrite(M, BusCmd(sid, page, reg, 3), Bits(val))

rtsds_930x_mode_offset(sid) ==
    [subreg |-> IF sid > 3 THEN RTSDS_930X_SDS_SUBMODE_CTRL1
                ELSE RTSDS_930X_SDS_SUBMODE_CTRL0,
     subshift |-> IF sid > 3 THEN (sid - 4) * 5 ELSE (sid - 2) * 5,
     modeshift |-> IF sid < 4 THEN sid * 6
                   ELSE IF sid < 8 THEN (sid - 4) * 6
                   ELSE IF sid < 10 THEN (sid - 8) * 6
                   ELSE (sid - 10) * 6,
     modereg |-> IF sid < 4 THEN RTSDS_930X_SDS_MODE_SEL_0
                 ELSE IF sid < 8 THEN RTSDS_930X_SDS_MODE_SEL_1
                 ELSE IF sid < 10 THEN RTSDS_930X_SDS_MODE_SEL_2
                 ELSE RTSDS_930X_SDS_MODE_SEL_3]

rtsds_930x_set_mode(M, sid, combomode) ==
    IF sid > RTSDS_930X_MAX_SDS THEN Ret(M, -EINVAL)
    ELSE LET o == rtsds_930x_mode_offset(sid)
             mode == RTSDS_MODE(combomode)
             submode == RTSDS_SUBMODE(combomode)
             M1 == IF sid >= 2 \/ sid <= 9
                   THEN iomask32(M, ShlC(M.ub, Bits(31), o.subshift),
                                 ShlC(M.ub, Bits(And(submode, 31)), o.subshift),
                                 o.subreg)
                   ELSE M
         IN  Ret(iomask32(M1, Shl(Bits(31), o.modeshift),
                          Shl(Bits(And(mode, 31)), o.modeshift), o.modereg), 0)

rtsds_930x_get_mode(M, sid) ==
    IF sid > RTSDS_930X_MAX_SDS THEN Ret(M, -EINVAL)
    ELSE LET o == rtsds_930x_mode_offset(sid)
             M1 == IF sid >= 2 \/ sid <= 9 THEN ioread32(M, o.subreg) ELSE M
             submode == IF sid >= 2 \/ sid <= 9
                        THEN Val(ShrC(M.ub, Peek(M, o.subreg), o.subshift)
                                 \cap Bits(31))
                        ELSE 0
             mode == Val(Shr(Peek(M1, o.modereg), o.modeshift) \cap Bits(31))
         IN  Ret(ioread32(M1, o.modereg), RTSDS_COMBOMODE(mode, submode))

\* fault variant: the code written back has mode and submode exchanged
rtsds_930x_reset_swapped(M, sid) ==
    IF sid > RTSDS_930X_MAX_SDS THEN Ret(M, -EINVAL)
    ELSE LET modeoff == rtsds_930x_conf.mode_map[PHY_INTERFACE_MODE_NA]
             Restart(g) ==
                 IF g.ret # modeoff
                 THEN Ret(rtsds_930x_set_mode(
                              rtsds_930x_set_mode(g.m, sid, modeoff).m, sid,
                              RTSDS_COMBOMODE(RTSDS_SUBMODE(g.ret),
                                              RTSDS_MODE(g.ret))).m, 0)
                 ELSE Ret(g.m, 0)
         IN  Restart(rtsds_930x_get_mode(M, sid))

rtsds_930x_reset(M, sid) ==
    IF sid > RTSDS_930X_MAX_SDS THEN Ret(M, -EINVAL)
    ELSE LET modeoff == rtsds_930x_conf.mode_map[PHY_INTERFACE_MODE_NA]
             Restart(g) ==
                 IF g.ret # modeoff
                 THEN Ret(rtsds_930x_set_mode(
                              rtsds_930x_set_mode(g.m, sid, modeoff).m, sid, g.ret).m, 0)
                 ELSE Ret(g.m, 0)
         IN  Restart(rtsds_930x_get_mode(M, sid))

\* ----------------------------------------------------------------- RTL931x
RTSDS_931X_SERDES_MODE_CTRL(offs) == <<"sw", 5068 + offs>>
RTSDS_931X_PS_SERDES_OFF_MODE_CTRL == <<"sw", 5108>>

\* fault variant: the even lanes change to the second background SerDes at
\* page 64
rtsds_931x_backsid_early(sid, page) ==
    LET map == <<0, 1, 2, 3, 6, 7, 10, 11, 14, 15, 18, 19, 22, 23>>
        backsid == map[sid + 1]
    IN  IF And(sid, 1) = 1 /\ sid # 1 THEN backsid + (page \div 64)
        ELSE IF page >= 64 THEN backsid + 1
        ELSE backsid

rtsds_931x_backsid(sid, page) ==
    LET map == <<0, 1, 2, 3, 6, 7, 10, 11, 14, 15, 18, 19, 22, 23>>
        backsid == map[sid + 1]
    IN  IF And(sid, 1) = 1 /\ sid # 1 THEN backsid + (page \div 64)
        ELSE IF page >= 128 THEN backsid + 1
        ELSE backsid

rtsds_931x_range(sid, page, reg) ==
    sid > RTSDS_931X_MAX_SDS \/ page > RTSDS_931X_MAX_PAGE \/ reg > 31

rtsds_931x_read(M, sid, page, reg) ==
    IF rtsds_931x_range(sid, page, reg) THEN Ret(M, -EINVAL)
    ELSE BusRead(M, BusCmd(rtsds_931x_backsid(sid, page), And(page, 63), reg, 1))

rtsds_931x_mask(M, sid, page, reg, val, mask) ==
    IF rtsds_931x_range(sid, page, reg) THEN Ret(M, -EINVAL)
    ELSE LET cmd == BusCmd(rtsds_931x_backsid(sid, page), And(page, 63), reg, 3)
             Merge(r) ==
                 IF r.ret < 0 THEN Ret(r.m, -EIO)
                 ELSE BusWrite(r.m, cmd,
                               Bits(val) \cup (Bits(r.ret) \cap Not32(Bits(mask))))
         IN  IF mask # 65535 THEN Merge(rtsds_931x_read(M, sid, page, reg))
             ELSE BusWrite(M, cmd, Bits(val))

rtsds_931x_set_mode(M, sid, combomode) ==
    IF sid > RTSDS_931X_MAX_SDS THEN Ret(M, -EINVAL)
    ELSE LET shift == And(sid, 3) * 8
             offs == And(sid, 12)
             mode == RTSDS_MODE(combomode)
             submode == RTSDS_SUBMODE(combomode)
             \* (submode & 0x3f << 6): << binds tighter than &
             M1 == rtsds_931x_mask(M, sid, 31, 9, And(submode, 63 * 64), 4032).m
         IN  Ret(iomask32(M1, Shl(Bits(255), shift),
                          Shl(Bits(And(Or(mode, RTSDS_931X_SDS_FORCE_SETUP), 255)), shift),
                          RTSDS_931X_SERDES_MODE_CTRL(offs)), 0)

rtsds_931x_get_mode(M, sid) ==
    IF sid > RTSDS_931X_MAX_SDS THEN Ret(M, -EINVAL)
    ELSE LET shift == And(sid, 3) * 8
             offs == And(sid, 12)
             a == RTSDS_931X_SERDES_MODE_CTRL(offs)
             Combine(r) ==
                 \* an error return is shifted and masked like a value
                 LET submode == Val(Shr(IF r.ret < 0 THEN Word \ Bits((-r.ret) - 1)
                                        ELSE Bits(r.ret), 6) \cap Bits(63))
                     mode == Val(Shr(Peek(r.m, a), shift) \cap Bits(31))
                 IN  Ret(ioread32(r.m, a), RTSDS_COMBOMODE(mode, submode))
         IN  Combine(rtsds_931x_read(M, sid, 31, 9))

rtsds_931x_reset(M, sid) ==
    IF sid > RTSDS_931X_MAX_SDS THEN Ret(M, -EINVAL)
    ELSE LET modeoff == rtsds_931x_conf.mode_map[PHY_INTERFACE_MODE_NA]
             Restart(g) ==
                 LET pwr == Peek(g.m, RTSDS_931X_PS_SERDES_OFF_MODE_CTRL)
                     M1 == iowrite32(ioread32(g.m, RTSDS_931X_PS_SERDES_OFF_MODE_CTRL),
                                     pwr \cup {sid}, RTSDS_931X_PS_SERDES_OFF_MODE_CTRL)
                 IN  IF g.ret # modeoff
                     THEN Ret(iowrite32(
                                  rtsds_931x_set_mode(
                                      rtsds_931x_set_mode(M1, sid, modeoff).m,
                                      sid, g.ret).m,
                                  pwr, RTSDS_931X_PS_SERDES_OFF_MODE_CTRL), 0)
                     ELSE Ret(g.m, 0)
         IN  Restart(rtsds_931x_get_mode(M, sid))

\* ------------------------------------------------- dispatch through ctrl->conf
conf_read(M, sid, page, reg) ==
    LET C == Called(M, <<"read", sid, page, reg>>)
    IN  CASE M.fam = "838x" -> rtsds_838x_read(C, sid, page, reg)
          [] M.fam = "839x" -> rtsds_839x_read(C, sid, page, reg)
          [] M.fam = "930x" -> rtsds_930x_read(C, sid, page, reg)
          [] M.fam = "931x" -> rtsds_931x_read(C, sid, page, reg)

conf_mask(M, sid, page, reg, val, mask) ==
    LET C == Called(M, <<"mask", sid, page, reg, val, mask>>)
    IN  CASE M.fam = "838x" -> rtsds_838x_mask(C, sid, page, reg, val, mask)
          [] M.fam = "839x" -> rtsds_839x_mask(C, sid, page, reg, val, mask)
          [] M.fam = "930x" -> rtsds_930x_mask(C, sid, page, reg, val, mask)
          [] M.fam = "931x" -> rtsds_931x_mask(C, sid, page, reg, val, mask)

conf_set_mode(M, sid, combomode) ==
    LET C == Called(M, <<"set_mode", sid, combomode>>)
    IN  CASE M.fam = "838x" -> rtsds_838x_set_mode(C, sid, combomode)
          [] M.fam = "839x" -> rtsds_839x_set_mode(C, sid, combomode)
          [] M.fam = "930x" -> rtsds_930x_set_mode(C, sid, combomode)
          [] M.fam = "931x" -> rtsds_931x_set_mode(C, sid, combomode)

conf_get_mode(M, sid) ==
    LET C == Called(M, <<"get_mode", sid>>)
    IN  CASE M.fam = "838x" -> rtsds_838x_get_mode(C, sid)
          [] M.fam = "839x" -> rtsds_839x_get_mode(C, sid)
          [] M.fam = "930x" -> rtsds_930x_get_mode(C, sid)
          [] M.fam = "931x" -> rtsds_931x_get_mode(C, sid)

\* ------------------------------------------------------------------ resets
RECURSIVE MaskEach(_, _, _, _, _, _, _)
\* for (sid = sidlo; sid <= sidhi; sid++) ctrl->conf->mask(ctrl, sid, ...)
MaskEach(M, sid, sidhi, page, reg, val, mask) ==
    IF sid > sidhi THEN M
    ELSE MaskEach(conf_mask(M, sid, page, reg, val, mask).m,
                  sid + 1, sidhi, page, reg, val, mask)

rtsds_83xx_soft_reset(M, sidlo, sidhi) ==
    MaskEach(MaskEach(M, sidlo, sidhi, 0, 3, 28998, 65535),
             sidlo, sidhi, 0, 3, 28934, 65535)

RECURSIVE MaskAll(_, _, _, _)
\* a run of direct mask calls on one lane, results ignored
MaskAll(fam, M, sid, steps) ==
    IF steps = <<>> THEN M
    ELSE LET Call(s) == IF fam = "838x"
                        THEN rtsds_838x_mask(M, sid, s[1], s[2], s[3], s[4])
                        ELSE rtsds_839x_mask(M, sid, s[1], s[2], s[3], s[4])
         IN  MaskAll(fam, Call(Head(steps)).m, sid, Tail(steps))

rtsds_838x_reset(M, sid) ==
    IF sid > RTSDS_838X_MAX_SDS THEN Ret(M, -EINVAL)
    ELSE LET M1 == MaskAll("838x", M, sid,
                       << <<1, 9, 512, 512>>, <<1, 9, 0, 512>>,
                          <<1, 0, 16448, 65535>>, <<1, 0, 18240, 65535>>,
                          <<1, 0, 18368, 65535>>, <<1, 0, 16384, 65535>> >>)
             M2 == rtsds_83xx_soft_reset(M1, sid, sid)
         IN  Ret(MaskAll("838x", M2, sid,
                         << <<0, 0, 1024, 65535>>, <<0, 0, 1027, 65535>> >>), 0)

rtsds_839x_reset(M, sid) ==
    IF sid > RTSDS_839X_MAX_SDS THEN Ret(M, -EINVAL)
    ELSE LET lo == sid - And(sid, 1)
             hi == Or(sid, 1)
             M1 == IF lo < 8 \/ lo = 10
                   THEN MaskAll("839x",
                            MaskAll("839x", M, hi,
                                << <<9, 1, 80, 65535>>, <<9, 1, 240, 65535>>,
                                   <<9, 1, 0, 65535>> >>),
                            lo,
                            << <<8, 20, 0, 1>>, <<8, 20, 512, 512>>,
                               <<8, 20, 0, 512>> >>)
                   ELSE MaskAll("839x", M, lo,
                            << <<10, 16, 0, 8>>, <<11, 0, 32768, 32768>>,
                               <<11, 0, 0, 32768>> >>)
         IN  Ret(rtsds_83xx_soft_reset(M1, lo, hi), 0)

conf_reset(M, sid) ==
    LET C == Called(M, <<"reset", sid>>)
    IN  CASE M.fam = "838x" -> rtsds_838x_reset(C, sid)
          [] M.fam = "839x" -> rtsds_839x_reset(C, sid)
          [] M.fam = "930x" -> rtsds_930x_reset(C, sid)
          [] M.fam = "931x" -> rtsds_931x_reset(C, sid)

\* --------------------------------------------------------------- sequencer
\* struct rtsds_seq: six u16
Step(action, ports, page, reg, val, mask) ==
    [action |-> action, ports |-> ports, page |-> page, reg |-> reg,
     val |-> val, mask |-> mask]

RECURSIVE Records(_)
Records(data) ==
    IF Len(data) < 6 THEN <<>>
    ELSE <<Step(data[1], data[2], data[3], data[4], data[5], data[6])>>
             \o Records(SubSeq(data, 7, Len(data)))

\* struct rtsds_ctrl: sds[] has RTSDS_930X_MAX_SDS + 1 records and is followed
\* by sequence[].  A record is a pointer and four ints, a script pointer is
\* one pointer: on the 32 bit MIPS the driver is built for, field f (0 phy,
\* 1 mode, 2 link, 3 min_port, 4 max_port) of sds[sid] with sid beyond the
\* table is the word of sequence[Overlay(sid, f)]; index 9 is the word behind
\* the structure.
SdsCapacity == RTSDS_930X_MAX_SDS + 1

Overlay(sid, f) == ((sid - SdsCapacity) * 5) + f

\* A word of sequence[] is NULL (<<>>), the records of a loaded script, or
\* Stray(v): the int v that a store through sds[] has left there, which is
\* NULL when v is 0 and else the address of no script.
Stray(v) == IF v = 0 THEN <<>> ELSE <<Step(-1, 0, 0, 0, v, 0)>>

IsStray(seq) == seq # <<>> /\ seq[1].action = -1

\* One event of rtsds_load_events: data is the u16 array of the property
\* (<<>> when the property is absent), old the word sequence[i] holds, nomem
\* whether devm_kzalloc fails.  The word is left alone when the property is
\* absent or incomplete and is NULL when the allocation fails; a loaded
\* script is the supplied records followed by the zeroed extra element.  of_property_read_u16_array
\* reads the elements that of_property_count_u16_elems has counted.
\* (LoadEvent_exact is the fault variant that allocates no extra element.)
LoadEvent_exact(data, old, nomem) ==
    IF Len(data) <= 0 THEN old
    ELSE IF (Len(data) * 2) % 12 # 0 THEN old
    ELSE IF nomem THEN <<>>
    ELSE Records(data)

LoadEvent(data, old, nomem) ==
    IF Len(data) <= 0 THEN old
    ELSE IF (Len(data) * 2) % 12 # 0 THEN old
    ELSE IF nomem THEN <<>>
    ELSE Records(data) \o <<Step(0, 0, 0, 0, 0, 0)>>

rtsds_load_events(seqs, props, failing) ==
    [i \in 0 .. RTSDS_EVENT_MAX |-> LoadEvent(props[i], seqs[i], i \in failing)]

\* fault variant: every step applies to every lane
OnLane_any(step, sid) == TRUE

\* seq->ports & BIT(sid)
OnLane(step, sid) == sid \in Bits(step.ports)

\* fault variant: the result of the modify is ignored
StepFailed_never(ret) == FALSE

\* if (ret) after ctrl->conf->mask
StepFailed(ret) == ret # 0

RECURSIVE RunSteps(_, _, _, _, _)
\* the while loop of rtsds_run_event from the element at index i; an index
\* behind the script is memory the script does not own
RunSteps(M, seq, sid, i, delay) ==
    IF i > Len(seq) THEN Ret([M EXCEPT !.past = TRUE, !.oops = TRUE], 0)
    ELSE IF seq[i].action = RTSDS_SEQ_STOP
    THEN Ret([M EXCEPT !.steps = @ + 1], 0)
    ELSE LET d == IF seq[i].action = RTSDS_SEQ_WAIT /\ OnLane(seq[i], sid)
                  THEN seq[i].val ELSE delay
             M1 == [M EXCEPT !.slept = @ + d, !.steps = @ + 1]
             Go(r) == IF StepFailed(r.ret) THEN Ret(r.m, -EIO)
                      ELSE RunSteps(r.m, seq, sid, i + 1, d)
         IN  IF seq[i].action = RTSDS_SEQ_MASK /\ OnLane(seq[i], sid)
             THEN Go(conf_mask(M1, sid, seq[i].page, seq[i].reg,
                               seq[i].val, seq[i].mask))
             ELSE RunSteps(M1, seq, sid, i + 1, d)

rtsds_run_event(M, seqs, sid, evt) ==
    IF evt > RTSDS_EVENT_MAX \/ sid > Conf(M.fam).max_sds THEN Ret(M, -EINVAL)
    ELSE IF seqs[evt] = <<>> THEN Ret(M, 0)
    ELSE IF IsStray(seqs[evt]) THEN Ret([M EXCEPT !.oops = TRUE], 0)
    ELSE RunSteps(M, seqs[evt], sid, 1, 0)

RECURSIVE ScanModes(_, _, _)
ScanModes(map, hwmode, m) ==
    IF m >= PHY_INTERFACE_MODE_MAX THEN PHY_INTERFACE_MODE_MAX
    ELSE IF map[m] = hwmode THEN m
    ELSE ScanModes(map, hwmode, m + 1)

\* fault variant: the scan starts behind the first symbol
rtsds_hwmode_to_phymode_from1(fam, hwmode) ==
    ScanModes(Conf(fam).mode_map, hwmode, 1)

rtsds_hwmode_to_phymode(fam, hwmode) == ScanModes(Conf(fam).mode_map, hwmode, 0)

\* ------------------------------------------------------------------ attach
\* one pass of the loop of rtsds_setup; S is [m: machine, sds: lane table,
\* seqs: sequence[]].  The mode of a lane beyond the table is stored in the
\* word of sequence[] behind it.
SetupLane(S, mask, sid) ==
    LET hwoff == Conf(S.m.fam).mode_map[PHY_INTERFACE_MODE_NA]
        Script(r) == IF r.ret = 0
                     THEN rtsds_run_event(r.m, S.seqs, sid, RTSDS_EVENT_SETUP)
                     ELSE r
        Read(M) == IF M.oops THEN Ret(M, 0) ELSE conf_get_mode(M, sid)
        Keep(g, phymode) ==
            IF g.m.oops THEN [S EXCEPT !.m = g.m]
            ELSE IF sid < SdsCapacity
            THEN [S EXCEPT !.m = g.m, !.sds[sid].mode = phymode]
            ELSE [S EXCEPT !.m = g.m, !.seqs[Overlay(sid, 1)] = Stray(phymode)]
        Store(g) == Keep(g, rtsds_hwmode_to_phymode(S.m.fam, g.ret))
    IN  Store(Read(IF sid \in Bits(mask)
                   THEN Script(conf_set_mode(S.m, sid, hwoff)).m
                   ELSE S.m))

RECURSIVE SetupFrom(_, _, _)
SetupFrom(S, mask, sid) ==
    IF sid > Conf(S.m.fam).max_sds \/ S.m.oops THEN S
    ELSE SetupFrom(SetupLane(S, mask, sid), mask, sid + 1)

rtsds_setup(M, table, seqs, mask) ==
    SetupFrom([m |-> M, sds |-> table, seqs |-> seqs], mask, 0)

\* -------------------------------------------------------------- controller
VARIABLES
    family,     \* ctrl->conf: the family the device matched
    build,      \* what the build does with an out-of-range shift count
    dt,         \* the event properties of the device tree node
    nomem,      \* the events whose script devm_kzalloc cannot allocate
    sds_mask,   \* ctrl->sds_mask ("controlled-ports")
    sequence,   \* ctrl->sequence[]
    sds,        \* ctrl->sds[]: mode, link, min_port, max_port of each lane
    lock,       \* ctrl->lock: 0 when free, else the caller holding it
    mem,        \* the hardware words written so far
    fill,       \* the word every other hardware address holds
    stuck,      \* the indirect bus does not clear its busy bit
    phase,      \* "probe" until rtsds_probe has run, then "ready"
    frame,      \* per caller: the call it is in and its position
    ev          \* what the last step did

vars == <<family, build, dt, nomem, sds_mask, sequence, sds, lock, mem, fill,
          stuck, phase, frame, ev>>

\* the callers sharing the controller
Callers == DOMAIN frame

\* the machine a step of driver code starts on
Mach == [mem |-> mem, fill |-> fill, fam |-> family, stuck |-> stuck,
         ub |-> build, io |-> <<>>, calls |-> <<>>, slept |-> 0, steps |-> 0,
         past |-> FALSE, oops |-> FALSE]

Idle == [pc |-> "idle", op |-> "none", sid |-> 0, arg |-> <<>>, plan |-> <<>>,
         ret |-> 0, old |-> 0, hist |-> <<>>, rets |-> <<>>, calls |-> <<>>,
         locked |-> FALSE]

Enter(pc, op, sid, arg, plan) ==
    [pc |-> pc, op |-> op, sid |-> sid, arg |-> arg, plan |-> plan,
     ret |-> 0, old |-> sds[sid].mode, hist |-> <<>>, rets |-> <<>>,
     calls |-> <<>>, locked |-> FALSE]

\* the record of a step: who, in which call, its result so far, the phases
\* the call has run with the result of each, the backend calls it has made,
\* this step's hardware accesses, the hardware words as they were before the
\* step, and for a replay on its own what the sequencer slept and examined
Ev(kind, c, f, ret, calls, io) ==
    [kind |-> kind, c |-> c, op |-> f.op, sid |-> f.sid, arg |-> f.arg,
     ret |-> ret, old |-> f.old, hist |-> f.hist, rets |-> f.rets,
     calls |-> calls, io |-> io, locked |-> f.locked, was |-> mem,
     slept |-> 0, steps |-> 0, past |-> FALSE]

\* fault variant: the phy_ops without their sds_mask test
phy_unmanaged_skipped(sid) == FALSE

\* !(ctrl->sds_mask & BIT(sid)) of the phy_ops
phy_unmanaged(sid) == sid \notin Bits(sds_mask)

\* fault variant: rtsds_mask without its sds_mask test
mask_unmanaged_skipped(sid) == FALSE

\* !(ctrl->sds_mask & BIT(sid)) of rtsds_mask
mask_unmanaged(sid) == sid \notin Bits(sds_mask)

\* a call that returns ret at once
Direct(c, op, sid, arg, ret) ==
    /\ ev' = Ev("return", c, Enter("idle", op, sid, arg, <<>>), ret, <<>>, <<>>)
    /\ UNCHANGED <<family, build, dt, nomem, sds_mask, sequence, sds, lock, mem, fill,
                   stuck, phase, frame>>

\* a call that goes on to mutex_lock (pc "lock") or into the backend (pc "io")
Begin(c, pc, op, sid, arg, plan) ==
    /\ frame' = [frame EXCEPT ![c] = Enter(pc, op, sid, arg, plan)]
    /\ ev' = Ev("call", c, frame'[c], 0, <<>>, <<>>)
    /\ UNCHANGED <<family, build, dt, nomem, sds_mask, sequence, sds, lock, mem, fill,
                   stuck, phase>>

CanCall(c) == phase = "ready" /\ frame[c].pc = "idle"

\* fault variant: init replays the POWER_ON script behind the INIT script
rtsds_phy_init_both(c, sid) ==
    /\ CanCall(c)
    /\ IF phy_unmanaged(sid) THEN Direct(c, "init", sid, <<>>, 0)
       ELSE Begin(c, "lock", "init", sid, <<>>,
                  << <<"event", RTSDS_EVENT_INIT>>,
                     <<"event", RTSDS_EVENT_POWER_ON>> >>)

rtsds_phy_init(c, sid) ==
    /\ CanCall(c)
    /\ IF phy_unmanaged(sid) THEN Direct(c, "init", sid, <<>>, 0)
       ELSE Begin(c, "lock", "init", sid, <<>>,
                  << <<"event", RTSDS_EVENT_INIT>> >>)

rtsds_phy_power_on(c, sid) ==
    /\ CanCall(c)
    /\ IF phy_unmanaged(sid) THEN Direct(c, "power_on", sid, <<>>, 0)
       ELSE Begin(c, "lock", "power_on", sid, <<>>,
                  << <<"event", RTSDS_EVENT_POWER_ON>> >>)

rtsds_phy_power_off(c, sid) ==
    /\ CanCall(c)
    /\ IF phy_unmanaged(sid) THEN Direct(c, "power_off", sid, <<>>, 0)
       ELSE Begin(c, "lock", "power_off", sid, <<>>,
                  << <<"event", RTSDS_EVENT_PRE_POWER_OFF>>,
                     <<"set_mode", Conf(family).mode_map[PHY_INTERFACE_MODE_NA]>>,
                     <<"event", RTSDS_EVENT_POST_POWER_OFF>> >>)

\* fault variant: the mode is stored before the PRE_SET_MODE script runs
rtsds_phy_set_mode_int_early(phymode, hwmode) ==
    << <<"store_event", phymode, RTSDS_EVENT_PRE_SET_MODE>>,
       <<"set_mode", hwmode>>,
       <<"event", RTSDS_EVENT_POST_SET_MODE>> >>

\* the body of rtsds_phy_set_mode_int between mutex_lock and mutex_unlock
rtsds_phy_set_mode_int(phymode, hwmode) ==
    << <<"event", RTSDS_EVENT_PRE_SET_MODE>>,
       <<"set_mode", hwmode>>,
       <<"store_event", phymode, RTSDS_EVENT_POST_SET_MODE>> >>

\* fault variant: rtsds_phy_set_mode without its PHY_MODE_ETHERNET test
rtsds_phy_set_mode_any(c, sid, mode, submode) ==
    /\ CanCall(c)
    /\ IF sid \notin Bits(sds_mask)
       THEN Direct(c, "set_mode", sid, <<mode, submode>>, 0)
       ELSE Begin(c, "lock", "set_mode", sid, <<mode, submode>>,
                  << <<"event", RTSDS_EVENT_PRE_SET_MODE>>,
                     <<"set_mode", Conf(family).mode_map[submode]>>,
                     <<"store_event", submode, RTSDS_EVENT_POST_SET_MODE>> >>)

rtsds_phy_set_mode(c, sid, mode, submode) ==
    /\ CanCall(c)
    /\ IF phy_unmanaged(sid) THEN Direct(c, "set_mode", sid, <<mode, submode>>, 0)
       ELSE IF mode # "ETHERNET"
            THEN Direct(c, "set_mode", sid, <<mode, submode>>, -EINVAL)
       ELSE Begin(c, "lock", "set_mode", sid, <<mode, submode>>,
                  rtsds_phy_set_mode_int(submode, Conf(family).mode_map[submode]))

\* fault variant: the backend reset runs before the PRE_RESET script
rtsds_phy_reset_int_first ==
    << <<"reset">>, <<"event", RTSDS_EVENT_PRE_RESET>>,
       <<"event", RTSDS_EVENT_POST_RESET>> >>

\* the body of rtsds_phy_reset_int between mutex_lock and mutex_unlock
rtsds_phy_reset_int ==
    << <<"event", RTSDS_EVENT_PRE_RESET>>, <<"reset">>,
       <<"event", RTSDS_EVENT_POST_RESET>> >>

rtsds_phy_reset(c, sid) ==
    /\ CanCall(c)
    /\ IF phy_unmanaged(sid) THEN Direct(c, "reset", sid, <<>>, 0)
       ELSE Begin(c, "lock", "reset", sid, <<>>, rtsds_phy_reset_int)

\* debugfs "mode" write: the decimal hardware mode goes to the setter unchecked
rtsds_dbg_mode_write(c, sid, hwmode) ==
    /\ CanCall(c)
    /\ Begin(c, "lock", "dbg_mode_write", sid, <<hwmode>>,
             rtsds_phy_set_mode_int(rtsds_hwmode_to_phymode(family, hwmode), hwmode))

\* debugfs "mode" read
rtsds_dbg_mode_show(c, sid) ==
    /\ CanCall(c)
    /\ Begin(c, "lock", "dbg_mode_show", sid, <<>>, << <<"get_mode">> >>)

rtsds_read(c, sid, page, reg) ==
    /\ CanCall(c)
    /\ Begin(c, "io", "read", sid, <<page, reg>>, << <<"read", page, reg>> >>)

rtsds_mask(c, sid, page, reg, val, mask) ==
    /\ CanCall(c)
    /\ IF mask_unmanaged(sid)
       THEN Direct(c, "mask", sid, <<page, reg, val, mask>>, -EACCES)
       ELSE Begin(c, "io", "mask", sid, <<page, reg, val, mask>>,
                  << <<"mask", page, reg, val, mask>> >>)

\* rtsds_write is rtsds_mask with mask 0xffff
rtsds_write(c, sid, page, reg, val) ==
    /\ CanCall(c)
    /\ IF mask_unmanaged(sid)
       THEN Direct(c, "write", sid, <<page, reg, val>>, -EACCES)
       ELSE Begin(c, "io", "write", sid, <<page, reg, val>>,
                  << <<"mask", page, reg, val, 65535>> >>)

\* fault variant: a lock that never makes a caller wait
LockNeverHeld == TRUE

\* mutex_lock(&ctrl->lock) returns only when no one holds the lock
LockFree == lock = 0

mutex_lock(c) ==
    /\ frame[c].pc = "lock"
    /\ LockFree
    /\ lock' = c
    /\ frame' = [frame EXCEPT ![c].pc = "crit", ![c].locked = TRUE,
                              ![c].old = sds[frame[c].sid].mode]
    /\ ev' = Ev("lock", c, frame'[c], 0, <<>>, <<>>)
    /\ UNCHANGED <<family, build, dt, nomem, sds_mask, sequence, sds, mem, fill, stuck,
                   phase>>

\* fault variant: a failed statement does not end the body
Aborted_never(c) == FALSE

\* if (!ret): a statement that has failed ends the body
Aborted(c) == frame[c].ret # 0

\* what one statement of a locked body does to the machine
Exec(M, h, sid) ==
    CASE h[1] = "event" -> rtsds_run_event(M, sequence, sid, h[2])
      [] h[1] = "set_mode" -> conf_set_mode(M, sid, h[2])
      [] h[1] = "store_event" -> rtsds_run_event(M, sequence, sid, h[3])
      [] h[1] = "reset" -> conf_reset(M, sid)
      [] h[1] = "get_mode" -> Ret(conf_get_mode(M, sid).m, 0)
      [] h[1] = "read" -> conf_read(M, sid, h[2], h[3])
      [] h[1] = "mask" -> conf_mask(M, sid, h[2], h[3], h[4], h[5])

\* the next statement of the body the caller runs under the lock; each
\* statement runs only while ret is 0.  A caller the kernel has stopped
\* (pc "oops") runs nothing more and still holds the lock.
Critical(c) ==
    /\ frame[c].pc = "crit"
    /\ ~Aborted(c)
    /\ frame[c].plan # <<>>
    /\ LET h == Head(frame[c].plan)
           Done(r) ==
               /\ mem' = r.m.mem
               /\ sds' = IF h[1] = "store_event"
                         THEN [sds EXCEPT ![frame[c].sid].mode = h[2]] ELSE sds
               /\ frame' = [frame EXCEPT ![c].plan = Tail(@), ![c].ret = r.ret,
                                         ![c].hist = Append(@, h),
                                         ![c].rets = Append(@, r.ret),
                                         ![c].calls = @ \o r.m.calls,
                                         ![c].pc = IF r.m.oops THEN "oops" ELSE @]
               /\ ev' = Ev(IF r.m.oops THEN "oops" ELSE "step", c, frame'[c],
                           r.ret, r.m.calls, r.m.io)
       IN  Done(Exec(Mach, h, frame[c].sid))
    /\ UNCHANGED <<family, build, dt, nomem, sds_mask, sequence, lock, fill, stuck, phase>>

mutex_unlock(c) ==
    /\ frame[c].pc = "crit"
    /\ Aborted(c) \/ frame[c].plan = <<>>
    /\ lock' = 0
    /\ frame' = [frame EXCEPT ![c] = Idle]
    /\ ev' = Ev("return", c, frame[c], frame[c].ret, frame[c].calls, <<>>)
    /\ UNCHANGED <<family, build, dt, nomem, sds_mask, sequence, sds, mem, fill, stuck,
                   phase>>

\* the backend call of rtsds_read / rtsds_mask, made without the lock
RegAccess(c) ==
    /\ frame[c].pc = "io"
    /\ LET Done(r) ==
               /\ mem' = r.m.mem
               /\ ev' = Ev("return", c, frame[c], r.ret, r.m.calls, r.m.io)
       IN  Done(Exec(Mach, Head(frame[c].plan), frame[c].sid))
    /\ frame' = [frame EXCEPT ![c] = Idle]
    /\ UNCHANGED <<family, build, dt, nomem, sds_mask, sequence, sds, lock, fill, stuck,
                   phase>>

\* rtsds_probe from rtsds_load_events on: the lane records are those
\* rtsds_phy_create left, the provider is registered.  When rtsds_setup is
\* stopped by the kernel the probe does not finish (phase "oops").
rtsds_probe ==
    /\ phase = "probe"
    /\ LET Done(S) ==
               /\ sequence' = S.seqs
               /\ sds' = S.sds
               /\ mem' = S.m.mem
               /\ phase' = IF S.m.oops THEN "oops" ELSE "ready"
               /\ ev' = Ev(IF S.m.oops THEN "oops" ELSE "probe", 0, Idle, 0,
                           S.m.calls, <<>>)
       IN  Done(rtsds_setup(Mach, sds, rtsds_load_events(sequence, dt, nomem),
                            sds_mask))
    /\ UNCHANGED <<family, build, dt, nomem, sds_mask, lock, fill, stuck, frame>>

\* fault variant: the lower bound of the companion is not tested
Companion_unbounded(sid2, max_sds) == sid2 > max_sds

\* if (sid2 < -1 || sid2 > ctrl->conf->max_sds)
Companion(sid2, max_sds) == sid2 < -1 \/ sid2 > max_sds

\* rtsds_simple_xlate: args holds the cells of the phandle as the ints they
\* are assigned to (the cell 0xffffffff is -1).  The stores go through
\* sds[]: for a lane behind the table they land in sequence[], or behind it.
rtsds_simple_xlate(args) ==
    /\ phase = "probe"
    /\ LET Field(T, sid, name, f, v) ==
               IF sid < SdsCapacity THEN [T EXCEPT !.sds[sid][name] = v]
               ELSE IF Overlay(sid, f) <= RTSDS_EVENT_MAX
               THEN [T EXCEPT !.seqs[Overlay(sid, f)] = Stray(v)]
               ELSE T
           Linked(T, sid, sid2) ==
               IF sid2 >= 0 THEN Field(T, sid2, "link", 2, sid) ELSE T
           Bind(T, sid, sid2, min_port, max_port) ==
               Field(Field(Linked(Field(T, sid, "link", 2, sid2), sid, sid2),
                           sid, "min_port", 3, min_port),
                     sid, "max_port", 4, max_port)
           Done(T, ret) ==
               /\ sds' = T.sds
               /\ sequence' = T.seqs
               /\ ev' = [Ev("xlate", 0, Enter("idle", "xlate", 0, args, <<>>),
                            ret, <<>>, <<>>)
                            EXCEPT !.old = [sds |-> sds, seqs |-> sequence]]
           Now == [sds |-> sds, seqs |-> sequence]
       IN  IF Len(args) # 4 THEN Done(Now, -EINVAL)
           ELSE IF args[1] < 0 \/ args[1] > Conf(family).max_sds
           THEN Done(Now, -EINVAL)
           ELSE IF Companion(args[2], Conf(family).max_sds)
           THEN Done(Now, -EINVAL)
           ELSE IF args[3] < 0 THEN Done(Now, -EINVAL)
           ELSE IF args[4] < args[3] THEN Done(Now, -EINVAL)
           ELSE Done(Bind(Now, args[1], args[2], args[3], args[4]), 0)
    /\ UNCHANGED <<family, build, dt, nomem, sds_mask, lock, mem, fill, stuck,
                   phase, frame>>

\* the indirect bus stops answering
BusFault ==
    /\ Indirect(family)
    /\ ~stuck
    /\ stuck' = TRUE
    /\ ev' = Ev("bus", 0, Idle, 0, <<>>, <<>>)
    /\ UNCHANGED <<family, build, dt, nomem, sds_mask, sequence, sds, lock, mem, fill,
                   phase, frame>>

\* a backend function called on its own, with arguments of any range
BackendRead(sid, page, reg) ==
    /\ LET Done(r) ==
               /\ mem' = r.m.mem
               /\ ev' = Ev("backend", 0,
                           Enter("idle", "read", 0, <<sid, page, reg>>, <<>>),
                           r.ret, r.m.calls, r.m.io)
       IN  Done(conf_read(Mach, sid, page, reg))
    /\ UNCHANGED <<family, build, dt, nomem, sds_mask, sequence, sds, lock, fill, stuck,
                   phase, frame>>

BackendMask(sid, page, reg, val, mask) ==
    /\ LET Done(r) ==
               /\ mem' = r.m.mem
               /\ ev' = Ev("backend", 0,
                           Enter("idle", "mask", 0, <<sid, page, reg, val, mask>>, <<>>),
                           r.ret, r.m.calls, r.m.io)
       IN  Done(conf_mask(Mach, sid, page, reg, val, mask))
    /\ UNCHANGED <<family, build, dt, nomem, sds_mask, sequence, sds, lock, fill, stuck,
                   phase, frame>>

\* ------------------------------------------------------------------ inputs
\* u16 records of an event property: a modify of page 0 register 3 on every
\* lane, a modify of a page no family has, a wait, the stop record
RecModify == <<RTSDS_SEQ_MASK, 65535, 0, 3, 16, 65535>>
RecBadPage == <<RTSDS_SEQ_MASK, 65535, 255, 0, 0, 65535>>
RecWait == <<RTSDS_SEQ_WAIT, 65535, 0, 0, 3, 0>>
RecStop == <<RTSDS_SEQ_STOP, 0, 0, 0, 0, 0>>

NoScripts == [i \in 0 .. RTSDS_EVENT_MAX |-> <<>>]

PreFails ==
    [NoScripts EXCEPT ![RTSDS_EVENT_INIT] = RecModify \o <<0>>,
                      ![RTSDS_EVENT_PRE_SET_MODE] = RecBadPage \o RecStop,
                      ![RTSDS_EVENT_PRE_RESET] = RecModify \o RecStop,
                      ![RTSDS_EVENT_PRE_POWER_OFF] = RecBadPage]

PostFails ==
    [NoScripts EXCEPT ![RTSDS_EVENT_SETUP] = RecModify \o RecStop,
                      ![RTSDS_EVENT_INIT] = RecModify,
                      ![RTSDS_EVENT_POWER_ON] = RecWait \o RecModify \o RecStop,
                      ![RTSDS_EVENT_POST_SET_MODE] = RecBadPage \o RecStop,
                      ![RTSDS_EVENT_POST_RESET] = RecBadPage,
                      ![RTSDS_EVENT_POST_POWER_OFF] = RecModify]

DeviceTrees == {NoScripts, PreFails, PostFails}

\* the two lanes the callers hold handles of
TestLanes(fam) == CASE fam = "838x" -> <<0, 5>>
                    [] fam = "839x" -> <<0, 1>>
                    [] fam = "930x" -> <<11, 4>>
                    [] fam = "931x" -> <<3, 0>>

Lanes == {TestLanes(family)[1], TestLanes(family)[2]}

\* the arguments of phy_set_mode: off, a symbol every table maps, one
\* symbol the family's table leaves out, and a mode that is not Ethernet
Unmapped(fam) == IF fam = "839x" THEN PHY_INTERFACE_MODE_XGMII
                 ELSE PHY_INTERFACE_MODE_SGMII

ModeArgs == {<<"ETHERNET", s>> : s \in {PHY_INTERFACE_MODE_NA,
                                        PHY_INTERFACE_MODE_1000BASEX,
                                        Unmapped(family)}}
            \cup {<<"PCIE", PHY_INTERFACE_MODE_QSGMII>>}

\* what is written to the debugfs mode file: the code of QSGMII
HwModes == {RTSDS_COMBOMODE(6, 0)}

\* page and register of a register access: in range, out of range
RegArgs == {<<0, 3>>, <<2, 1>>, <<Conf(family).max_page + 1, 3>>, <<0, 32>>}

\* value and mask of a masked write
MaskArgs == {<<16, 65535>>, <<512, 512>>}

Fills == {{}, Word}

\* What the memory of a struct phy is when it is replayed as a script: it
\* holds a stop record at once, or a modify of the lane and then a stop
\* record, or none up to memory that cannot be read.
PhyAsScript == {<<Step(0, 0, 0, 0, 0, 0)>>,
                Records(RecModify \o RecStop),
                Stray(-1)}

\* ctrl->sequence[] when rtsds_probe reaches rtsds_load_events: zeroed by
\* devm_kzalloc, then, on the families with fourteen lanes, written through
\* sds[12] and sds[13] by rtsds_phy_create: .phy is the new phy (g is what
\* its memory reads as), .mode is left, .link, .min_port, .max_port are -1
Created(fam, g) ==
    [i \in 0 .. RTSDS_EVENT_MAX |->
        IF Conf(fam).max_sds < SdsCapacity THEN <<>>
        ELSE IF i % 5 = 0 THEN g
        ELSE IF i % 5 = 1 THEN <<>>
        ELSE Stray(-1)]

\* the state rtsds_probe has built when it reaches rtsds_load_events
Constructed ==
    /\ \E g \in (IF Conf(family).max_sds < SdsCapacity
                 THEN {<<>>} ELSE PhyAsScript) : sequence = Created(family, g)
    /\ sds = [sid \in 0 .. (IF Conf(family).max_sds < SdsCapacity
                            THEN Conf(family).max_sds ELSE SdsCapacity - 1) |->
                 [mode |-> 0, link |-> -1, min_port |-> -1, max_port |-> -1]]
    /\ nomem = {}
    /\ lock = 0
    /\ mem = [a \in {} |-> {}]
    /\ stuck = FALSE
    /\ phase = "probe"
    /\ ev = Ev("init", 0, Idle, 0, <<>>, <<>>)

\* --------------------------------------------- one caller, lane operations
\* family, build, event properties, controlled-ports and hardware fill:
\* every family with each set of scripts and the first lane managed; every
\* family without scripts, with no lane or both lanes managed, on hardware
\* whose unwritten words are all ones; the RTL930x on the other build
Configs ==
    {<<f, "wrap", d, 2 ^ TestLanes(f)[1], {}>> : f \in Families, d \in DeviceTrees}
    \cup {<<f, "wrap", NoScripts, 0, Word>> : f \in Families}
    \cup {<<f, "wrap", NoScripts,
            (2 ^ TestLanes(f)[1]) + (2 ^ TestLanes(f)[2]), Word>> : f \in Families}
    \cup {<<"930x", "zero", NoScripts, 2 ^ TestLanes("930x")[1], {}>>}

Init ==
    /\ \E cfg \in Configs :
          /\ family = cfg[1]
          /\ build = cfg[2]
          /\ dt = cfg[3]
          /\ sds_mask = cfg[4]
          /\ fill = cfg[5]
    /\ frame = [c \in {1} |-> Idle]
    /\ Constructed

\* the phy operations on the lanes the callers hold handles of
Phy(lanes, modes) ==
    \/ \E c \in Callers, sid \in lanes : rtsds_phy_init(c, sid)
    \/ \E c \in Callers, sid \in lanes : rtsds_phy_power_on(c, sid)
    \/ \E c \in Callers, sid \in lanes : rtsds_phy_power_off(c, sid)
    \/ \E c \in Callers, sid \in lanes : rtsds_phy_reset(c, sid)
    \/ \E c \in Callers, sid \in lanes, a \in modes :
           rtsds_phy_set_mode(c, sid, a[1], a[2])

\* the debugfs mode file of each lane
Debug(lanes) ==
    \/ \E c \in Callers, sid \in lanes, h \in HwModes :
           rtsds_dbg_mode_write(c, sid, h)
    \/ \E c \in Callers, sid \in lanes : rtsds_dbg_mode_show(c, sid)

\* a call inside its locked section
Mutex ==
    \/ \E c \in Callers : mutex_lock(c)
    \/ \E c \in Callers : Critical(c)
    \/ \E c \in Callers : mutex_unlock(c)

Next ==
    \/ rtsds_probe
    \/ BusFault
    \/ Phy(Lanes, ModeArgs)
    \/ Debug(Lanes)
    \/ Mutex

Spec == Init /\ [][Next]_vars

\* ------------------------------------------- one caller, register accesses
Access(args, vals) ==
    \/ \E c \in Callers, sid \in Lanes, a \in args :
           rtsds_read(c, sid, a[1], a[2])
    \/ \E c \in Callers, sid \in Lanes, a \in args, v \in vals :
           rtsds_mask(c, sid, a[1], a[2], v[1], v[2])
    \/ \E c \in Callers, sid \in Lanes, a \in args :
           rtsds_write(c, sid, a[1], a[2], 16)
    \/ \E c \in Callers : RegAccess(c)

NextReg ==
    \/ rtsds_probe
    \/ BusFault
    \/ Access(RegArgs, MaskArgs)

InitReg ==
    /\ family \in Families
    /\ build = "wrap"
    /\ dt = NoScripts
    /\ sds_mask = 2 ^ TestLanes(family)[1]
    /\ fill \in Fills
    /\ frame = [c \in {1} |-> Idle]
    /\ Constructed

SpecReg == InitReg /\ [][NextReg]_vars

\* ------------------------------------------------------- several callers
NumCallers == 2

\* both lanes are managed
InitConc ==
    /\ family \in Families
    /\ build = "wrap"
    /\ dt = PreFails
    /\ sds_mask = (2 ^ TestLanes(family)[1]) + (2 ^ TestLanes(family)[2])
    /\ fill = {}
    /\ frame = [c \in 1 .. NumCallers |-> Idle]
    /\ Constructed

NextConc ==
    \/ rtsds_probe
    \/ Phy(Lanes, {<<"ETHERNET", PHY_INTERFACE_MODE_1000BASEX>>})
    \/ Mutex
    \/ \E c \in Callers, sid \in Lanes : rtsds_read(c, sid, 0, 3)
    \/ \E c \in Callers, sid \in Lanes : rtsds_write(c, sid, 0, 3, 16)
    \/ \E c \in Callers : RegAccess(c)

SpecConc == InitConc /\ [][NextConc]_vars

\* rtsds_probe registers the provider (devm_of_phy_provider_register) in
\* front of rtsds_load_events and rtsds_setup, and neither of the two takes
\* the lock: a consumer that rtsds_simple_xlate has handed a phy while the
\* probe is still in front of rtsds_load_events calls phy_init.
phy_init_during_probe(c, sid) ==
    /\ phase = "probe"
    /\ frame[c].pc = "idle"
    /\ IF phy_unmanaged(sid) THEN Direct(c, "init", sid, <<>>, 0)
       ELSE Begin(c, "lock", "init", sid, <<>>,
                  << <<"event", RTSDS_EVENT_INIT>> >>)

\* the callers from the registration of the provider on
NextEarly ==
    \/ rtsds_probe
    \/ \E c \in Callers, sid \in Lanes : phy_init_during_probe(c, sid)
    \/ Phy(Lanes, {<<"ETHERNET", PHY_INTERFACE_MODE_1000BASEX>>})
    \/ Mutex

SpecEarly == InitConc /\ [][NextEarly]_vars

\* The same callers under the scheduling the kernel gives them.  A caller
\* sleeping in mutex_lock is handed the lock in the end when it is free again
\* and again (strong fairness: the kernel mutex hands over to the first
\* waiter); a caller that can release the lock, run the next statement of
\* its body or finish its register access is run in the end (weak
\* fairness).  The weak fairness of Critical and RegAccess is written out,
\* []<>~ENABLED <<A>>_vars \/ []<><<A>>_vars, with the guard of the action
\* for ENABLED: each of their steps changes frame[c].
SpecLive ==
    /\ InitConc
    /\ [][NextConc]_vars
    /\ \A c \in 1 .. NumCallers :
           /\ SF_vars(mutex_lock(c))
           /\ WF_vars(mutex_unlock(c))
           /\ \/ []<>(~(/\ frame[c].pc = "crit"
                         /\ ~Aborted(c)
                         /\ frame[c].plan # <<>>))
              \/ []<><<Critical(c)>>_vars
           /\ \/ []<>(frame[c].pc # "io")
              \/ []<><<RegAccess(c)>>_vars

\* ------------------------------------------------ the backends on their own
BackendLanes == {Conf(family).max_sds, Conf(family).max_sds + 1}
BackendPages == {2, Conf(family).max_page + 1}
BackendRegs == {0, 1, 32}

InitBackend ==
    /\ family \in Families
    /\ build = "wrap"
    /\ dt = NoScripts
    /\ sds_mask = 0
    /\ fill \in Fills
    /\ frame = [c \in {1} |-> Idle]
    /\ Constructed

NextBackend ==
    \/ BusFault
    \/ \E sid \in BackendLanes, page \in BackendPages, reg \in BackendRegs :
           BackendRead(sid, page, reg)
    \/ \E sid \in BackendLanes, page \in BackendPages, reg \in BackendRegs,
          v \in {<<65537, 65535>>, <<512, 512>>} :
           BackendMask(sid, page, reg, v[1], v[2])

SpecBackend == InitBackend /\ [][NextBackend]_vars

\* --------------------------------------- the RTL931x lanes and their pages
\* on the RTL931x, one modify that replaces register 0 of a page of lane 2
\* or 3, then a read of register 0 of any page of any lane
NextRemap ==
    \/ /\ family = "931x" /\ ev.kind = "init"
       /\ \E sid \in {2, 3}, page \in {0, 64, 128} :
              BackendMask(sid, page, 0, 5, 65535)
    \/ /\ family = "931x" /\ ev.op # "read"
       /\ \E sid \in 0 .. RTSDS_931X_MAX_SDS, page \in 0 .. RTSDS_931X_MAX_PAGE :
              BackendRead(sid, page, 0)

SpecRemap == InitBackend /\ [][NextRemap]_vars

\* ---------------------------------------- the mode operations of a backend
\* ctrl->conf->set_mode and ctrl->conf->reset called on a lane, on hardware
\* whose submode field a register write has set before
ModeLanes(fam) == {TestLanes(fam)[1], TestLanes(fam)[2]}
ModeCodes(fam) ==
    {Conf(fam).mode_map[PHY_INTERFACE_MODE_NA],
     Conf(fam).mode_map[PHY_INTERFACE_MODE_1000BASEX],
     Conf(fam).mode_map[PHY_INTERFACE_MODE_QSGMII]}

BackendSetMode(sid, combomode) ==
    /\ LET Done(r) ==
               /\ mem' = r.m.mem
               /\ ev' = Ev("backend", 0,
                           Enter("idle", "set_mode", sid, <<combomode>>, <<>>),
                           r.ret, r.m.calls, r.m.io)
       IN  Done(conf_set_mode(Mach, sid, combomode))
    /\ UNCHANGED <<family, build, dt, nomem, sds_mask, sequence, sds, lock, fill, stuck,
                   phase, frame>>

BackendReset(sid) ==
    /\ LET Done(r) ==
               /\ mem' = r.m.mem
               /\ ev' = Ev("backend", 0,
                           Enter("idle", "reset", sid, <<>>, <<>>),
                           r.ret, r.m.calls, r.m.io)
       IN  Done(conf_reset(Mach, sid))
    /\ UNCHANGED <<family, build, dt, nomem, sds_mask, sequence, sds, lock, fill, stuck,
                   phase, frame>>

NextMode ==
    \/ \E sid \in ModeLanes(family), combomode \in ModeCodes(family) :
           BackendSetMode(sid, combomode)
    \/ \E sid \in ModeLanes(family) : BackendReset(sid)
    \/ /\ family = "931x"
       /\ \E sid \in ModeLanes(family) : BackendMask(sid, 31, 9, 53 * 64, 4032)

SpecMode == InitBackend /\ [][NextMode]_vars

\* ---------------------------------------------------- the binding on its own
\* phandles with three, four and five cells; lanes below, in and above the
\* family's range, companions from -2 on, ports from -1 on
InitBind ==
    /\ family \in Families
    /\ build = "wrap"
    /\ dt = NoScripts
    /\ sds_mask = 0
    /\ fill = {}
    /\ frame = [c \in {1} |-> Idle]
    /\ Constructed
    /\ sequence = Created(family, <<Step(0, 0, 0, 0, 0, 0)>>)

NextBind ==
    \E args \in {<<0, 1, 0>>, <<0, 1, 0, 0, 0>>}
                \cup ({-1, 0, 1, Conf(family).max_sds, Conf(family).max_sds + 1}
                      \X {-2, -1, 0, 1, Conf(family).max_sds + 1}
                      \X {-1, 0} \X {-1, 0}) :
        rtsds_simple_xlate(args)

SpecBind == InitBind /\ [][NextBind]_vars

\* ------------------------------------------------------ the codec on its own
\* the largest mode and submode code, the 0xff of RTSDS_MODE and RTSDS_SUBMODE
CodeMax == 255

\* RTSDS_COMBOMODE of a pair, then RTSDS_MODE and RTSDS_SUBMODE of the result,
\* as the mode tables and the set_mode functions of the backends use them
Codec(mode, submode) ==
    /\ phase = "probe"
    /\ phase' = "codec"
    /\ LET Unpacked(combomode) ==
               ev' = [Ev("codec", 0, Enter("idle", "pack", 0, <<mode, submode>>, <<>>),
                         combomode, <<>>, <<>>)
                         EXCEPT !.rets = <<RTSDS_MODE(combomode),
                                           RTSDS_SUBMODE(combomode)>>]
       IN  Unpacked(RTSDS_COMBOMODE(mode, submode))
    /\ UNCHANGED <<family, build, dt, nomem, sds_mask, sequence, sds, lock, mem,
                   fill, stuck, frame>>

\* rtsds_hwmode_to_phymode on the table of a family
ReverseLookup(fam, hwmode) ==
    /\ phase = "probe"
    /\ phase' = "codec"
    /\ ev' = Ev("lookup", 0, Enter("idle", "lookup", 0, <<fam, hwmode>>, <<>>),
                rtsds_hwmode_to_phymode(fam, hwmode), <<>>, <<>>)
    /\ UNCHANGED <<family, build, dt, nomem, sds_mask, sequence, sds, lock, mem,
                   fill, stuck, frame>>

InitCodec ==
    /\ family = "930x"
    /\ build = "wrap"
    /\ dt = NoScripts
    /\ sds_mask = 0
    /\ fill = {}
    /\ frame = [c \in {1} |-> Idle]
    /\ Constructed

NextCodec ==
    /\ phase = "probe"
    /\ \/ \E mode \in 0 .. CodeMax, submode \in 0 .. CodeMax : Codec(mode, submode)
       \/ \E fam \in Families,
             hwmode \in {RTSDS_COMBOMODE(m, s) :
                             m \in 0 .. 31, s \in {0, 1, 2, 5, 53, 57, 63}}
                        \cup {0, -EINVAL} :
              ReverseLookup(fam, hwmode)

SpecCodec == InitCodec /\ [][NextCodec]_vars

\* --------------------------------------------------- the sequencer on its own
\* rtsds_load_events on its own
LoadEvents ==
    /\ phase = "probe"
    /\ sequence' = rtsds_load_events(sequence, dt, nomem)
    /\ phase' = "loaded"
    /\ ev' = Ev("load", 0, Idle, 0, <<>>, <<>>)
    /\ UNCHANGED <<family, build, dt, nomem, sds_mask, sds, lock, mem, fill, stuck,
                   frame>>

\* rtsds_run_event on its own, on the scripts rtsds_load_events has loaded
RunEvent(sid, evt) ==
    /\ phase = "loaded"
    /\ LET Done(r) ==
               /\ mem' = r.m.mem
               /\ ev' = [Ev("run", 0, Enter("idle", "run", sid, <<evt>>, <<>>),
                            r.ret, r.m.calls, r.m.io)
                            EXCEPT !.slept = r.m.slept, !.steps = r.m.steps,
                                   !.past = r.m.past]
       IN  Done(rtsds_run_event(Mach, sequence, sid, evt))
    /\ UNCHANGED <<family, build, dt, nomem, sds_mask, sequence, sds, lock, fill,
                   stuck, phase, frame>>

MaxRecords == 3

RECURSIVE Arrays(_)
\* the u16 arrays of up to n records; besides the records above, a modify of
\* page 1 register 2 that applies to lane 2 only
Arrays(n) ==
    IF n = 0 THEN {<<>>}
    ELSE Arrays(n - 1)
         \cup {a \o r : a \in {x \in Arrays(n - 1) : Len(x) = 6 * (n - 1)},
                        r \in {RecModify, RecBadPage, RecWait, RecStop,
                               <<RTSDS_SEQ_MASK, 4, 1, 2, 3, 255>>}}

\* the cmd-init property: absent, up to MaxRecords records, or records and
\* one element more
InitSeq ==
    /\ family \in Families
    /\ build = "wrap"
    /\ \E a \in Arrays(MaxRecords) \cup {RecModify \o <<0>>, RecWait \o <<2, 65535>>} :
          dt = [NoScripts EXCEPT ![RTSDS_EVENT_INIT] = a]
    /\ sds_mask = 0
    /\ fill = {}
    /\ frame = [c \in {1} |-> Idle]
    /\ sequence = Created(family, <<Step(0, 0, 0, 0, 0, 0)>>)
    /\ sds = [sid \in 0 .. (IF Conf(family).max_sds < SdsCapacity
                            THEN Conf(family).max_sds ELSE SdsCapacity - 1) |->
                 [mode |-> 0, link |-> -1, min_port |-> -1, max_port |-> -1]]
    /\ nomem \in {{}, {RTSDS_EVENT_INIT}}
    /\ lock = 0
    /\ mem = [a \in {} |-> {}]
    /\ stuck = FALSE
    /\ phase = "probe"
    /\ ev = Ev("init", 0, Idle, 0, <<>>, <<>>)

NextSeq ==
    \/ LoadEvents
    \/ BusFault
    \/ \E sid \in {2, 5} : RunEvent(sid, RTSDS_EVENT_INIT)

SpecSeq == InitSeq /\ [][NextSeq]_vars

\* ------------------------------------------------------------------ attach
\* a SETUP script that modifies the lane, and one whose modify fails
SetupRuns == [NoScripts EXCEPT ![RTSDS_EVENT_SETUP] = RecModify \o RecStop]
SetupFails == [NoScripts EXCEPT ![RTSDS_EVENT_SETUP] = RecBadPage \o RecStop]

\* The hardware words as the boot loader leaves them: untouched, or with
\* lane 1 or lane 5 put into a mode of the family's table.
BootImages(fam) ==
    LET blank == [mem |-> [a \in {} |-> {}], fill |-> {}, fam |-> fam,
                  stuck |-> FALSE, ub |-> "wrap", io |-> <<>>, calls |-> <<>>,
                  slept |-> 0, steps |-> 0, past |-> FALSE, oops |-> FALSE]
    IN  {blank.mem}
        \cup {conf_set_mode(blank, sid, Conf(fam).mode_map[m]).m.mem :
                 sid \in {1, 5},
                 m \in {x \in DOMAIN Conf(fam).mode_map : Conf(fam).mode_map[x] # 0}}

InitAttach ==
    /\ family \in Families
    /\ build = "wrap"
    /\ dt \in {NoScripts, SetupRuns, SetupFails}
    /\ sds_mask \in {0, 2 ^ TestLanes(family)[1],
                     (2 ^ TestLanes(family)[1]) + (2 ^ TestLanes(family)[2])}
    /\ fill = {}
    /\ frame = [c \in {1} |-> Idle]
    /\ \E g \in (IF Conf(family).max_sds < SdsCapacity
                 THEN {<<>>} ELSE PhyAsScript) : sequence = Created(family, g)
    /\ sds = [sid \in 0 .. (IF Conf(family).max_sds < SdsCapacity
                            THEN Conf(family).max_sds ELSE SdsCapacity - 1) |->
                 [mode |-> 0, link |-> -1, min_port |-> -1, max_port |-> -1]]
    /\ nomem = {}
    /\ lock = 0
    /\ mem \in BootImages(family)
    /\ stuck = FALSE
    /\ phase = "probe"
    /\ ev = Ev("init", 0, Idle, 0, <<>>, <<>>)

NextAttach ==
    \/ rtsds_probe
    \/ BusFault

SpecAttach == InitAttach /\ [][NextAttach]_vars

\* ------------------------------------------------------------------ properties
Lifecycle == {"init", "power_on", "power_off", "set_mode", "reset"}
RegisterOps == {"read", "mask", "write"}

Managed(sid) == sid \in Bits(sds_mask)

\* the call that has just returned
Returned(ops) == ev.kind = "return" /\ ev.op \in ops

\* the event a statement of a locked body replays (-1: none)
EventOf(h) == IF h[1] = "event" THEN h[2]
              ELSE IF h[1] = "store_event" THEN h[3] ELSE -1

\* the callers between mutex_lock and mutex_unlock of a lifecycle operation
InLifecycle == {c \in Callers : frame[c].pc = "crit" /\ frame[c].op \in Lifecycle}

\* C1: the lifecycle operations init, power_on, power_off, set_mode and reset
\* are mutually exclusive on one controller: at most one caller is between
\* the start of its pre-event script and the end of its post-event script,
\* and that caller holds the lock.
LifecycleMutualExclusion ==
    /\ Cardinality(InLifecycle) <= 1
    /\ \A c \in InLifecycle : lock = c

\* C1 case: one caller is part way through its locked body while another has
\* called a lifecycle operation and waits for the lock
LifecycleContended ==
    \E c, d \in Callers :
        /\ c # d
        /\ frame[c].pc = "crit" /\ frame[c].op \in Lifecycle
        /\ frame[c].hist # <<>> /\ frame[c].plan # <<>>
        /\ frame[d].pc = "lock" /\ frame[d].op \in Lifecycle

\* C2: a backend read or modify issued through rtsds_read, rtsds_mask or
\* rtsds_write never executes while another caller is inside the locked
\* body of a lifecycle operation or inside another register access.
RegisterAccessExclusive ==
    (Returned(RegisterOps) /\ ev.calls # <<>>) =>
        \A d \in Callers \ {ev.c} : frame[d].pc \notin {"crit", "io"}

\* C3: on a lane outside sds_mask each of init, power_on, power_off, reset
\* and set_mode returns 0 without taking the lock, without a sequencer step,
\* without a backend call, and leaves the controller state (stored lane
\* records, hardware words, lock, scripts) unchanged.
UnmanagedLifecycleNoOp ==
    [][(ev'.kind = "return" /\ ev'.op \in Lifecycle /\ ev'.sid \notin Bits(sds_mask))
          => /\ ev'.ret = 0
             /\ ~ev'.locked
             /\ ev'.hist = <<>>
             /\ ev'.calls = <<>>
             /\ ev'.io = <<>>
             /\ UNCHANGED <<sds, mem, lock, sequence, sds_mask>>]_vars

\* C3 case: set_mode has returned on a lane outside sds_mask, after the
\* hardware has been written by operations on the managed lane
UnmanagedSetModeReturned ==
    /\ Returned({"set_mode"})
    /\ ev.sid \notin Bits(sds_mask)
    /\ ev.arg[1] = "ETHERNET"
    /\ sds_mask # 0
    /\ \E sid \in Lanes : sds[sid].mode = PHY_INTERFACE_MODE_1000BASEX

\* C4: rtsds_write and rtsds_mask on a lane outside sds_mask return -EACCES
\* for every page, register, value and mask, and call no backend function.
UnmanagedWriteDenied ==
    (Returned({"mask", "write"}) /\ ev.sid \notin Bits(sds_mask)) =>
        /\ ev.ret = -EACCES
        /\ ev.calls = <<>>
        /\ ev.io = <<>>

\* C4 case: a write with an out-of-range page has returned on a lane outside
\* sds_mask
UnmanagedWriteReturned ==
    /\ Returned({"write"})
    /\ ev.sid \notin Bits(sds_mask)
    /\ ev.arg[1] > Conf(family).max_page

\* the hardware with words w, as it answers when the bus is not stuck
Quiet(w) == [Mach EXCEPT !.stuck = FALSE, !.mem = w]

\* what hardware with words w holds for a lane: its mode and submode fields
\* and its page 0 register 3
LaneView(w, sid) ==
    <<conf_get_mode(Quiet(w), sid).ret, conf_read(Quiet(w), sid, 0, 3).ret>>

\* C5: after attach no operation changes a register or a mode/submode field
\* that belongs to a lane outside sds_mask.
UnmanagedLanesUntouched ==
    (phase = "ready" /\ ev.kind # "probe") =>
        \A sid \in Lanes :
            sid \notin Bits(sds_mask) => LaneView(mem, sid) = LaneView(ev.was, sid)

\* the arguments <<sid, page, reg, ...>> of a backend call are out of range
OutOfRange(arg) ==
    \/ arg[1] > Conf(family).max_sds
    \/ arg[2] > Conf(family).max_page
    \/ arg[3] > 31

\* C6: in every family the backend read and modify called with a lane
\* above max_sds, a page above max_page or a register above 31 return
\* -EINVAL and access no hardware.
BackendRangeChecked ==
    (ev.kind = "backend" /\ OutOfRange(ev.arg)) =>
        /\ ev.ret = -EINVAL
        /\ ev.io = <<>>

\* C6 case: a modify of an existing lane with a page above max_page has
\* returned, on hardware that earlier modifies have written
BackendRangeRejected ==
    /\ ev.kind = "backend" /\ ev.op = "mask"
    /\ ev.arg[1] <= Conf(family).max_sds
    /\ ev.arg[2] > Conf(family).max_page
    /\ ev.arg[3] <= 31
    /\ DOMAIN mem # {}

\* C7: with empty event scripts, after set_mode of a mapped symbol has
\* returned 0 on a managed lane, get_mode translated by the reverse lookup
\* gives that symbol.
SetModeReadsBack ==
    (/\ Returned({"set_mode"}) /\ ev.locked /\ ev.ret = 0
     /\ dt = NoScripts /\ ~stuck
     /\ Conf(family).mode_map[ev.arg[2]] # 0)
        => rtsds_hwmode_to_phymode(family, conf_get_mode(Mach, ev.sid).ret) = ev.arg[2]

\* the statement of the locked body that ran last
LastRun == ev.hist[Len(ev.hist)]

\* set_mode has returned an error from inside its locked body
SetModeFailed == Returned({"set_mode"}) /\ ev.locked /\ ev.ret # 0

\* C8 as stated: whenever set_mode on a managed lane returns an error, the
\* lane's stored mode equals its value before the call.
FailedSetModeKeepsMode == SetModeFailed => sds[ev.sid].mode = ev.old

\* C8: when set_mode on a managed lane returns an error of the PRE_SET_MODE
\* script or of the backend mode change, the lane's stored mode equals its
\* value before the call; when it returns an error of the POST_SET_MODE
\* script, the stored mode is the requested symbol.
FailedSetModeStoredMode ==
    SetModeFailed =>
        IF EventOf(LastRun) = RTSDS_EVENT_POST_SET_MODE
        THEN sds[ev.sid].mode = ev.arg[2]
        ELSE sds[ev.sid].mode = ev.old

\* C8 case: set_mode has failed in its POST_SET_MODE script, asked for a
\* mode other than the one stored before
PostSetModeFailed ==
    /\ SetModeFailed
    /\ EventOf(LastRun) = RTSDS_EVENT_POST_SET_MODE
    /\ ev.arg[2] # ev.old

\* C9: set_mode on a managed lane with an Ethernet symbol the family's table
\* does not map returns an error, calls no backend set_mode and leaves the
\* stored mode unchanged.
UnmappedSymbolRejected ==
    (/\ Returned({"set_mode"}) /\ Managed(ev.sid)
     /\ ev.arg[1] = "ETHERNET"
     /\ Conf(family).mode_map[ev.arg[2]] = 0)
        => /\ ev.ret # 0
           /\ \A i \in DOMAIN ev.calls : ev.calls[i][1] # "set_mode"
           /\ sds[ev.sid].mode = ev.old

\* C10 as stated: set_mode on any lane with a mode that is not Ethernet
\* returns an error, without the lock, a sequencer step or a backend call,
\* and the stored mode is unchanged.
NonEthernetRejected ==
    (Returned({"set_mode"}) /\ ev.arg[1] # "ETHERNET") =>
        /\ ev.ret # 0
        /\ ~ev.locked /\ ev.hist = <<>> /\ ev.calls = <<>>
        /\ sds[ev.sid].mode = ev.old

\* C10: set_mode on a managed lane with a mode that is not Ethernet returns
\* -EINVAL, without the lock, a sequencer step or a backend call, and the
\* stored mode is unchanged.
NonEthernetRejectedManaged ==
    (Returned({"set_mode"}) /\ ev.arg[1] # "ETHERNET" /\ ev.sid \in Bits(sds_mask)) =>
        /\ ev.ret = -EINVAL
        /\ ~ev.locked /\ ev.hist = <<>> /\ ev.calls = <<>> /\ ev.io = <<>>
        /\ sds[ev.sid].mode = ev.old

\* C10 case: set_mode with a mode that is not Ethernet has returned on a
\* managed lane
NonEthernetReturned ==
    /\ Returned({"set_mode"})
    /\ ev.arg[1] # "ETHERNET"
    /\ ev.sid \in Bits(sds_mask)

\* the operations that wrap a backend call in a pre and a post event
Wrapping == {"power_off", "set_mode", "reset"}

\* the order in which a wrapping operation has to run its statements
Ordered(op, arg) ==
    CASE op = "power_off" ->
            << <<"event", RTSDS_EVENT_PRE_POWER_OFF>>,
               <<"set_mode", Conf(family).mode_map[PHY_INTERFACE_MODE_NA]>>,
               <<"store_event", -1, RTSDS_EVENT_POST_POWER_OFF>> >>
      [] op = "set_mode" ->
            << <<"event", RTSDS_EVENT_PRE_SET_MODE>>,
               <<"set_mode", Conf(family).mode_map[arg[2]]>>,
               <<"store_event", arg[2], RTSDS_EVENT_POST_SET_MODE>> >>
      [] op = "reset" ->
            << <<"event", RTSDS_EVENT_PRE_RESET>>, <<"reset">>,
               <<"store_event", -1, RTSDS_EVENT_POST_RESET>> >>

\* statement h is the i-th statement of the order: the same backend call, or
\* the same event with the stored mode written just before it when the
\* order writes one
InOrder(h, want) ==
    IF want[1] = "store_event"
    THEN IF want[2] = -1 THEN h = <<"event", want[3]>> ELSE h = want
    ELSE h = want

\* C11: on a managed lane power_off runs PRE_POWER_OFF, the backend
\* set_mode of the off code, POST_POWER_OFF; set_mode runs PRE_SET_MODE, the
\* backend set_mode of the target code, the stored mode update,
\* POST_SET_MODE; reset runs PRE_RESET, the backend reset, POST_RESET; all
\* under one hold of the lock, each statement after the one before it has
\* completed, and the stored mode is the old one until the backend set_mode
\* has completed.
TransitionOrder ==
    (ev.kind \in {"step", "oops", "return"} /\ ev.op \in Wrapping /\ ev.locked) =>
        /\ Len(ev.hist) <= 3
        /\ \A i \in DOMAIN ev.hist : InOrder(ev.hist[i], Ordered(ev.op, ev.arg)[i])
        /\ ev.kind # "return" => lock = ev.c
        /\ (ev.op = "set_mode" /\ Len(ev.hist) < 3) => sds[ev.sid].mode = ev.old
        /\ (ev.op = "set_mode" /\ Len(ev.hist) = 3) => sds[ev.sid].mode = ev.arg[2]
        /\ ev.kind = "step" =>
              CASE LastRun[1] = "set_mode" ->
                       ev.calls = << <<"set_mode", ev.sid, LastRun[2]>> >>
                [] LastRun[1] = "reset" -> ev.calls[1] = <<"reset", ev.sid>>
                [] OTHER -> \A i \in DOMAIN ev.calls : ev.calls[i][1] = "mask"

\* C11 case: power_off has returned 0 after its backend set_mode and a
\* modify of its POST_POWER_OFF script
PowerOffCompleted ==
    /\ Returned({"power_off"}) /\ ev.ret = 0
    /\ Len(ev.hist) = 3
    /\ Len(ev.calls) >= 2
    /\ ev.calls[1][1] = "set_mode"
    /\ ev.calls[2][1] = "mask"

\* C12: in power_off, set_mode and reset a failing statement ends the
\* transition: every statement before the last one run has returned 0, so
\* after a failed pre event there is no backend set_mode or reset call and
\* no post event, and after a failed backend call no post event; the
\* operation returns the result of the last statement run, a success only
\* after all three, and the lock is free when it returns.
FailingStepAborts ==
    (Returned(Wrapping) /\ ev.locked) =>
        /\ ev.hist # <<>>
        /\ \A i \in 1 .. (Len(ev.rets) - 1) : ev.rets[i] = 0
        /\ ev.ret = ev.rets[Len(ev.rets)]
        /\ ev.ret = 0 => Len(ev.hist) = 3
        /\ (ev.ret # 0 /\ Len(ev.hist) = 1) =>
              /\ EventOf(LastRun) # -1
              /\ \A i \in DOMAIN ev.calls : ev.calls[i][1] = "mask"
        /\ (ev.ret # 0 /\ EventOf(LastRun) # -1) => ev.ret = -EIO
        /\ lock # ev.c

\* C12 case: set_mode has returned the error of its PRE_SET_MODE script
PreSetModeFailed ==
    /\ SetModeFailed
    /\ EventOf(LastRun) = RTSDS_EVENT_PRE_SET_MODE
    /\ ev.calls # <<>>

\* ctrl->sds[sid].mode as the code reads it: the record of the table, or the
\* word of sequence[] behind the table
StoredMode(sid) ==
    IF sid < SdsCapacity THEN sds[sid].mode
    ELSE IF sequence[Overlay(sid, 1)] = <<>> THEN 0
    ELSE IF IsStray(sequence[Overlay(sid, 1)]) THEN sequence[Overlay(sid, 1)][1].val
    ELSE 2 ^ 31

\* the backend calls that the probe has made for lane sid, in order
SetupCalls(sid) == LET Mine(c) == c[2] = sid IN SelectSeq(ev.calls, Mine)

\* C13: when rtsds_setup has finished, for every lane of the family the
\* stored mode is the reverse lookup of the hardware mode that get_mode
\* reads from that lane; for a managed lane the backend set_mode of the off
\* code comes first, then the modifies of the SETUP script, then get_mode;
\* for any other lane get_mode is the only call.
SetupSyncsModes ==
    ev.kind = "probe" =>
        \A sid \in 0 .. Conf(family).max_sds :
            /\ StoredMode(sid) =
                   rtsds_hwmode_to_phymode(family, conf_get_mode(Mach, sid).ret)
            /\ LET Shape(calls) ==
                       /\ calls[Len(calls)] = <<"get_mode", sid>>
                       /\ IF Managed(sid)
                          THEN /\ calls[1] = <<"set_mode", sid,
                                     Conf(family).mode_map[PHY_INTERFACE_MODE_NA]>>
                               /\ \A i \in 2 .. (Len(calls) - 1) :
                                      calls[i][1] = "mask"
                          ELSE Len(calls) = 1
               IN  Shape(SetupCalls(sid))

\* ------------------------------------------------ replaying a loaded script
\* the event of the replay, its property, and whether rtsds_load_events has
\* accepted the property
RunOf == ev.arg[1]
Property == dt[RunOf]
Accepted == Len(Property) > 0 /\ Len(Property) % 6 = 0 /\ RunOf \notin nomem

\* record i of the property is a MODIFY that names lane sid
Modifies(i, sid) ==
    /\ Property[6 * i - 5] = RTSDS_SEQ_MASK
    /\ sid \in Bits(Property[6 * i - 4])

RECURSIVE ScriptCalls(_, _)
\* the modifies that the records from i up to the first STOP ask for on
\* lane sid
ScriptCalls(i, sid) ==
    IF 6 * i > Len(Property) \/ Property[6 * i - 5] = RTSDS_SEQ_STOP THEN <<>>
    ELSE IF Modifies(i, sid)
    THEN << <<"mask", sid, Property[6 * i - 3], Property[6 * i - 2],
              Property[6 * i - 1], Property[6 * i]>> >> \o ScriptCalls(i + 1, sid)
    ELSE ScriptCalls(i + 1, sid)

RECURSIVE FirstFailing(_, _, _)
\* the calls from i on made one after the other on machine M: the machine
\* behind them and the index of the first one that fails, 0 when none does
FirstFailing(M, calls, i) ==
    IF i > Len(calls) THEN Ret(M, 0)
    ELSE LET Go(r) == IF r.ret # 0 THEN Ret(r.m, i)
                      ELSE FirstFailing(r.m, calls, i + 1)
         IN  Go(conf_mask(M, calls[i][2], calls[i][3], calls[i][4], calls[i][5],
                          calls[i][6]))

\* the machine the replay has started on
Before == [Mach EXCEPT !.mem = ev.was]

\* C14: a replay of a loaded script on a lane issues exactly the modifies of
\* the MODIFY records that name the lane and come before the first STOP, in
\* script order.
RunIssuesScriptCalls ==
    (ev.kind = "run" /\ Accepted) => ev.calls = ScriptCalls(1, ev.sid)

\* C14, amended: a replay issues those modifies in script order up to and
\* including the first one that fails, and all of them when none fails.
RunIssuesScriptCallsUntilFailure ==
    (ev.kind = "run" /\ Accepted) =>
        LET Upto(want, n) ==
                ev.calls = IF n = 0 THEN want ELSE SubSeq(want, 1, n)
        IN  /\ Upto(ScriptCalls(1, ev.sid),
                    FirstFailing(Before, ScriptCalls(1, ev.sid), 1).ret)
            /\ Property = RecStop => ev.ret = 0 /\ ev.calls = <<>>
            /\ (Property = RecModify \o RecStop /\ ev.sid = 2) =>
                   ev.calls = << <<"mask", 2, 0, 3, 16, 65535>> >>

\* a replay on lane 5 that has skipped a record for lane 2, issued two
\* modifies and stopped in front of a third
RunSkippedAndStopped ==
    /\ ev.kind = "run" /\ ev.ret = 0 /\ ev.sid = 5
    /\ Len(ev.calls) = 1
    /\ Property = <<RTSDS_SEQ_MASK, 4, 1, 2, 3, 255>> \o RecModify \o RecStop

RECURSIVE RecordOf(_, _, _)
\* the record, counted from record i, of the n-th modify for lane sid
RecordOf(i, sid, n) ==
    IF 6 * i > Len(Property) THEN 0
    ELSE IF Modifies(i, sid)
    THEN IF n = 1 THEN i ELSE RecordOf(i + 1, sid, n - 1)
    ELSE RecordOf(i + 1, sid, n)

RECURSIVE SleptThrough(_, _, _, _)
\* the microseconds slept on records i .. last for lane sid when the delay
\* in force is d
SleptThrough(i, last, sid, d) ==
    IF i > last THEN 0
    ELSE LET Then(nd) == nd + SleptThrough(i + 1, last, sid, nd)
         IN  Then(IF /\ Property[6 * i - 5] = RTSDS_SEQ_WAIT
                     /\ sid \in Bits(Property[6 * i - 4])
                  THEN Property[6 * i - 1] ELSE d)

\* C15: when the backend call of a MODIFY step fails, the replay stops at that
\* record: it is the last call issued and the last record examined, nothing
\* is slept behind it, the replay returns an error, and the hardware words
\* are those the calls issued so far have produced.
FailedModifyAborts ==
    (ev.kind = "run" /\ Accepted) =>
        LET Stops(f) ==
                f.ret # 0 =>
                    /\ ev.ret = -EIO
                    /\ f.ret = Len(ev.calls)
                    /\ ev.steps = RecordOf(1, ev.sid, f.ret)
                    /\ ev.slept = SleptThrough(1, RecordOf(1, ev.sid, f.ret),
                                               ev.sid, 0)
                    /\ mem = f.m.mem
        IN  Stops(FirstFailing(Before, ev.calls, 1))

\* a replay whose second modify has failed with a third one left, the change
\* of the first one still in the hardware
RunStoppedAtFailure ==
    /\ ev.kind = "run" /\ ev.ret = -EIO /\ ev.sid = 2
    /\ Property = RecModify \o RecBadPage \o RecModify
    /\ Len(ev.calls) = 2
    /\ mem # ev.was

\* C16: a replay of a script the loader has accepted ends within the loaded
\* script: it examines at most one record more than the property supplies,
\* never a record behind the loaded ones, and when it returns success the
\* last record it has examined is a STOP.
ReplayTerminates ==
    (ev.kind = "run" /\ Accepted) =>
        /\ ~ev.past
        /\ ev.steps >= 1
        /\ ev.steps <= (Len(Property) \div 6) + 1
        /\ ev.steps <= Len(sequence[RunOf])
        /\ ev.ret = 0 => sequence[RunOf][ev.steps].action = RTSDS_SEQ_STOP

\* a replay of MaxRecords records without a STOP that has ended on the
\* record behind them
RunEndedOnExtraRecord ==
    /\ ev.kind = "run" /\ Accepted /\ ev.ret = 0
    /\ Len(Property) = 6 * MaxRecords
    /\ \A i \in 1 .. MaxRecords : Property[6 * i - 5] # RTSDS_SEQ_STOP
    /\ ev.steps = MaxRecords + 1
    /\ Len(ev.calls) = 2

\* C17: loading the scripts is never fatal.  When rtsds_probe is done, the
\* script of an event whose property is absent, incomplete or could not be
\* allocated is empty, the script of every other event is its property's
\* records, the probe has completed, and no replay stops the kernel.
ScriptLoadingNeverFatal ==
    /\ phase # "oops"
    /\ ev.kind # "oops"
    /\ phase = "ready" =>
           \A e \in 0 .. RTSDS_EVENT_MAX :
               sequence[e] =
                   IF Len(dt[e]) > 0 /\ Len(dt[e]) % 6 = 0 /\ e \notin nomem
                   THEN Records(dt[e]) \o <<Step(0, 0, 0, 0, 0, 0)>>
                   ELSE <<>>

\* the accesses of the last step to address a, of kind k ("r" or "w")
Accesses(k, a) == {i \in 1 .. Len(ev.io) : ev.io[i][1] = k /\ ev.io[i][2] = a}

\* A read or modify of an existing register on a bus whose busy bit stays set
\* writes one command, reads the busy bit n times and then returns -EIO
\* without another access; it never reads the data register, and a modify
\* with a partial mask has written a read command and no data.
BusTimesOutAfter(n) ==
    (ev.kind = "backend" /\ Indirect(family) /\ stuck /\ ~OutOfRange(ev.arg)) =>
        /\ ev.ret = -EIO
        /\ Cardinality(Accesses("r", <<"sds", 0>>)) = n
        /\ Accesses("r", <<"sds", 0>>) = (Len(ev.io) - n + 1) .. Len(ev.io)
        /\ Cardinality(Accesses("w", <<"sds", 0>>)) = 1
        /\ Accesses("r", <<"sds", 4>>) = {}
        /\ (ev.op = "mask" /\ ev.arg[5] # 65535) =>
               /\ Accesses("w", <<"sds", 4>>) = {}
               /\ \A i \in Accesses("w", <<"sds", 0>>) : 1 \notin ev.io[i][3]
        /\ (ev.op = "mask" /\ ev.arg[5] = 65535) =>
               /\ Accesses("w", <<"sds", 4>>) = {1}
               /\ Accesses("w", <<"sds", 0>>) = {2}

OtherHalfUntouched ==
    (/\ ev.kind = "backend" /\ family = "839x" /\ ev.op = "mask"
     /\ ~OutOfRange(ev.arg) /\ ev.arg[5] <= 65535
     /\ rtsds_839x_offset(ev.arg[1], ev.arg[2], ev.arg[3]) >= 0) =>
        LET Frame(old, new, own, shift) ==
                /\ new \ own = old \ own
                /\ Shr(new \cap own, shift) =
                       ((Shr(old \cap own, shift) \ Bits(ev.arg[5]))
                            \cup Bits(ev.arg[4])) \cap (0 .. 15)
            At(a) == IF ev.arg[3] % 2 = 1
                     THEN Frame(Peek(Before, a), Peek(Mach, a), 16 .. 31, 16)
                     ELSE Frame(Peek(Before, a), Peek(Mach, a), 0 .. 15, 0)
        IN  At(<<"sds", rtsds_839x_offset(ev.arg[1], ev.arg[2], ev.arg[3])>>)

\* the pairs of the mode tables of the four families
TablePairs ==
    UNION {{<<RTSDS_MODE(Conf(f).mode_map[m]), RTSDS_SUBMODE(Conf(f).mode_map[m])>> :
                m \in {x \in 0 .. (PHY_INTERFACE_MODE_MAX - 1) :
                           Conf(f).mode_map[x] # 0}} : f \in Families}

\* C20: for every mode and submode in 0 .. 255, and so for every pair of the
\* mode tables, RTSDS_MODE and RTSDS_SUBMODE of RTSDS_COMBOMODE(mode, submode)
\* are mode and submode, and the packed value has the tag bit 0x10000 set.
PackUnpackIdentity ==
    /\ TablePairs \subseteq (0 .. CodeMax) \X (0 .. CodeMax)
    /\ ev.kind = "codec" =>
           /\ ev.rets = ev.arg
           /\ 16 \in Bits(ev.ret)
           /\ ev.ret # 0

\* the pair with both codes at their largest has been packed and unpacked
LargestPairUnpacked ==
    /\ ev.kind = "codec"
    /\ ev.arg = <<CodeMax, CodeMax>>
    /\ ev.rets = <<CodeMax, CodeMax>>
    /\ ev.ret = 131071

\* C21: no backend set_mode is called with a value that lacks the tag bit
\* 0x10000 (such as the 0 of a table entry that is not mapped), so the
\* hardware is never programmed from the mode and submode fields of such a
\* value.
SetModeOnlyFromTaggedCode ==
    \A i \in DOMAIN ev.calls :
        ev.calls[i][1] = "set_mode" =>
            /\ ev.calls[i][3] >= 0
            /\ 16 \in Bits(ev.calls[i][3])

\* The reverse lookup of a packed hardware code in the table of a family
\* gives the symbol that the table maps to the code, and the symbol none when
\* the table maps no symbol to it.
LookupExact(none) ==
    (ev.kind = "lookup" /\ ev.arg[2] >= 65536) =>
        LET Exact(map, hwmode) ==
                /\ \A m \in DOMAIN map :
                       (map[m] # 0 /\ hwmode = map[m]) => ev.ret = m
                /\ (\A m \in DOMAIN map : map[m] # hwmode) => ev.ret = none
        IN  Exact(Conf(ev.arg[1]).mode_map, ev.arg[2])

ResetIdempotent ==
    (ev.kind = "step" /\ LastRun[1] = "reset") =>
        LET Same(r) ==
                /\ r.ret = 0
                /\ conf_get_mode(r.m, ev.sid).ret = conf_get_mode(Mach, ev.sid).ret
        IN  Same(conf_reset(Mach, ev.sid))

\* a reset has cycled a lane through the off code and back: the lane is
\* not switched off and the reset has written hardware words
ResetCycledMode ==
    /\ ev.kind = "step" /\ LastRun[1] = "reset"
    /\ Indirect(family)
    /\ conf_get_mode(Mach, ev.sid).ret # Conf(family).mode_map[PHY_INTERFACE_MODE_NA]
    /\ \E i \in DOMAIN ev.io : ev.io[i][1] = "w"

\* the link a lane has: the field of its entry, or for a lane behind the
\* table the word of sequence[] that the field lies on (-1 when the word is
\* behind sequence[] as well)
LinkOf(T, sid) ==
    IF sid < SdsCapacity THEN T.sds[sid].link
    ELSE IF Overlay(sid, 2) > RTSDS_EVENT_MAX THEN -1
    ELSE IF T.seqs[Overlay(sid, 2)] = <<>> THEN 0
    ELSE IF IsStray(T.seqs[Overlay(sid, 2)]) THEN T.seqs[Overlay(sid, 2)][1].val
    ELSE -1

\* C24: the companion relation is symmetric: when a binding call has been
\* accepted, for all lanes A and B, link(A) = B implies link(B) = A.
LinkSymmetric ==
    (ev.kind = "xlate" /\ ev.ret = 0) =>
        LET Symmetric(T) ==
                \A a, b \in 0 .. Conf(family).max_sds :
                    LinkOf(T, a) = b => LinkOf(T, b) = a
        IN  Symmetric([sds |-> sds, seqs |-> sequence])

\* C25: a binding call returns an error and leaves the link and the port
\* range of every lane as they were when the phandle does not have four
\* cells, the lane is not in 0 .. max_sds, the companion is neither -1 nor in
\* 0 .. max_sds, the first port is negative or the last port is below the
\* first.
MalformedBindingRejected ==
    (/\ ev.kind = "xlate"
     /\ \/ Len(ev.arg) # 4
        \/ ev.arg[1] \notin 0 .. Conf(family).max_sds
        \/ ev.arg[2] \notin -1 .. Conf(family).max_sds
        \/ ev.arg[3] < 0
        \/ ev.arg[4] < ev.arg[3])
        => /\ ev.ret = -EINVAL
           /\ sds = ev.old.sds
           /\ sequence = ev.old.seqs

\* a call with companion -2 has been rejected on lanes that an earlier call
\* has bound
BadCompanionRejected ==
    /\ ev.kind = "xlate" /\ ev.ret = -EINVAL
    /\ ev.arg = <<0, -2, 0, 0>>
    /\ sds[0].link = 1 /\ sds[1].link = 0 /\ sds[0].min_port = 0

\* C26: under fair scheduling every lifecycle operation that a caller has
\* started on a managed lane returns in the end, and the caller then does not
\* hold the lock: a caller waiting for the lock gets it and no caller stays
\* inside an operation for ever.
StartedOperationReturns ==
    \A c \in 1 .. NumCallers :
        (frame[c].pc \in {"lock", "crit"} /\ frame[c].op \in Lifecycle)
            ~> (frame[c].pc = "idle" /\ lock # c)

RECURSIVE WaitSum(_, _, _)
\* the delays of the WAIT records among records i .. last of the property
\* that name lane sid, added up
WaitSum(i, last, sid) ==
    IF i > last THEN 0
    ELSE (IF /\ Property[6 * i - 5] = RTSDS_SEQ_WAIT
             /\ sid \in Bits(Property[6 * i - 4])
          THEN Property[6 * i - 1] ELSE 0) + WaitSum(i + 1, last, sid)

\* C27: a replay that reaches the STOP record of its script has slept, in
\* all, the sum of the delays of the WAIT records before the STOP that name
\* the lane: each delay is slept once, and records that do not name the lane
\* add nothing.
SleepIsSumOfWaits ==
    (/\ ev.kind = "run" /\ phase = "loaded" /\ Accepted
     /\ ev.ret = 0 /\ ~ev.past /\ ev.steps >= 1)
        => ev.slept = WaitSum(1, ev.steps - 1, ev.sid)

RECURSIVE FirstError(_, _, _)
\* the calls from i on made one after the other on machine M: what the
\* backend returns for the first one that fails, 0 when none does
FirstError(M, calls, i) ==
    IF i > Len(calls) THEN 0
    ELSE LET Go(r) == IF r.ret # 0 THEN r.ret
                      ELSE FirstError(r.m, calls, i + 1)
         IN  Go(conf_mask(M, calls[i][2], calls[i][3], calls[i][4], calls[i][5],
                          calls[i][6]))

\* C28: when the backend call of a MODIFY step fails, the replay returns the
\* error that the backend has returned for that call: -EINVAL for arguments
\* out of range, -EIO for a bus that does not answer.
ReplayReturnsBackendError ==
    (ev.kind = "run" /\ Accepted) =>
        LET Same(e) == e # 0 => ev.ret = e
        IN  Same(FirstError(Before, ev.calls, 1))

\* C29: once the probe has finished, the stored mode of a lane changes only
\* in the step of a set_mode transition on that lane that directly follows
\* its backend set_mode call, and only when that call has returned 0; the
\* value stored is the mode the transition was asked for.  No other step of
\* any operation changes a stored mode.
StoredModeOnlyAfterSetMode ==
    [][phase = "ready" =>
          \A s \in DOMAIN sds :
              sds'[s].mode # sds[s].mode =>
                  /\ ev'.kind \in {"step", "oops"}
                  /\ ev'.sid = s
                  /\ ev'.op \in {"set_mode", "dbg_mode_write"}
                  /\ Len(ev'.hist) >= 2
                  /\ ev'.hist[Len(ev'.hist)][1] = "store_event"
                  /\ ev'.hist[Len(ev'.hist) - 1][1] = "set_mode"
                  /\ ev'.rets[Len(ev'.hist) - 1] = 0
                  /\ sds'[s].mode = ev'.hist[Len(ev'.hist)][2]]_vars

\* a set_mode transition has stored a mode that differs from the one the
\* lane had when the caller took the lock, behind a PRE_SET_MODE script that
\* has modified the hardware
StoredModeChanged ==
    /\ ev.kind = "step" /\ ev.op = "set_mode"
    /\ Len(ev.hist) = 3 /\ ev.hist[3][1] = "store_event"
    /\ ev.rets[1] = 0 /\ ev.rets[2] = 0
    /\ sds[ev.sid].mode # ev.old
    /\ sds[ev.sid].mode = ev.arg[2]

IndirectModifyReadsThenWrites ==
    (/\ ev.kind = "backend" /\ ev.op = "mask" /\ Indirect(family)
     /\ ~OutOfRange(ev.arg) /\ ev.ret = 0)
        => LET Cmd(op) ==
                   IF family = "930x"
                   THEN BusCmd(ev.arg[1], ev.arg[2], ev.arg[3], op)
                   ELSE BusCmd(rtsds_931x_backsid(ev.arg[1], ev.arg[2]),
                               ev.arg[2] % 64, ev.arg[3], op)
               old == Peek(Before, BusKey(Cmd(1))) \cap (0 .. 15)
               Write(data) == << <<"w", <<"sds", 4>>, data>>,
                                 <<"w", <<"sds", 0>>, Cmd(3)>>,
                                 <<"r", <<"sds", 0>>>> >>
           IN  /\ ev.arg[5] # 65535 =>
                      ev.io = << <<"w", <<"sds", 0>>, Cmd(1)>>,
                                 <<"r", <<"sds", 0>>>>,
                                 <<"r", <<"sds", 4>>>> >>
                              \o Write((old \ Bits(ev.arg[5])) \cup Bits(ev.arg[4]))
               /\ ev.arg[5] = 65535 => ev.io = Write(Bits(ev.arg[4]))
               /\ Cardinality({i \in Accesses("w", <<"sds", 0>>) :
                                  ev.io[i][3] = Cmd(3)}) = 1

\* a modify with mask 0x200 has succeeded on a register that held other
\* bits, and has written them back with the value
MergedValueWritten ==
    /\ ev.kind = "backend" /\ ev.op = "mask" /\ Indirect(family)
    /\ ev.ret = 0 /\ ev.arg[5] = 512
    /\ Len(ev.io) = 6
    /\ ev.io[4][3] # Bits(ev.arg[4])

\* C32: on RTL838x and RTL839x a read or modify of page 2 register 1 reads
\* the register's word once more, directly in front of the read that is
\* used; a read or modify of any other register reads its word once.  A
\* modify then writes the word, and nothing else is accessed.
LatchReadTwice ==
    (/\ ev.kind = "backend" /\ ~Indirect(family) /\ ~OutOfRange(ev.arg)
     /\ (family = "839x" =>
            rtsds_839x_offset(ev.arg[1], ev.arg[2], ev.arg[3]) >= 0))
        => LET a == <<"sds", IF family = "838x"
                             THEN rtsds_838x_offset(ev.arg[1], ev.arg[2], ev.arg[3])
                             ELSE rtsds_839x_offset(ev.arg[1], ev.arg[2], ev.arg[3])>>
               reads == IF ev.arg[2] = 2 /\ ev.arg[3] = 1
                        THEN << <<"r", a>>, <<"r", a>> >> ELSE << <<"r", a>> >>
           IN  /\ ev.op = "read" => ev.io = reads
               /\ ev.op = "mask" =>
                      /\ Len(ev.io) = Len(reads) + 1
                      /\ SubSeq(ev.io, 1, Len(reads)) = reads
                      /\ ev.io[Len(ev.io)][1] = "w"
                      /\ ev.io[Len(ev.io)][2] = a

\* page 2 register 1 has been read on the RTL838x and modified on the
\* RTL839x
LatchAccessed ==
    /\ ev.kind = "backend" /\ ev.arg[2] = 2 /\ ev.arg[3] = 1
    /\ ~OutOfRange(ev.arg)
    /\ \/ family = "838x" /\ ev.op = "read" /\ Len(ev.io) = 2
       \/ family = "839x" /\ ev.op = "mask" /\ Len(ev.io) = 3

\* C33: the setup pass of the probe does not interleave with lane
\* operations: no caller holds the lock when the scripts are loaded and the
\* setup pass runs, and no caller takes the lock or runs a statement of a
\* lifecycle operation before they have run.
SetupNotInterleaved ==
    /\ (ev.kind \in {"probe", "oops"} /\ ev.c = 0) => lock = 0
    /\ (ev.kind \in {"lock", "step"} /\ ev.op \in Lifecycle) => phase # "probe"

\* the background SerDes, page and register that a command word selects
Selected(cmd) == [backsid |-> Val(Shr(cmd, 2) \cap (0 .. 4)),
                  page |-> Val(Shr(cmd, 7) \cap (0 .. 5)),
                  reg |-> Val(Shr(cmd, 13) \cap (0 .. 4))]

\* C34: on RTL931x the command of a read of lane 0..13, page 0..191 selects
\* the background SerDes of the documented table: for the lanes 0, 1, 2, 4,
\* 6, 8, 10, 12 the base of the lane for the pages 0..127 and base + 1 for
\* the pages 128..191, for the lanes 3, 5, .., 13 base, base + 1, base + 2
\* for the pages 0..63, 64..127, 128..191; it selects page mod 64, and the
\* background SerDes is within 0..31.  The function agrees with it too.
RemapMatchesTable ==
    (ev.kind = "backend" /\ ev.op = "read" /\ family = "931x") =>
        LET sid == ev.arg[1]
            page == ev.arg[2]
            base == <<0, 1, 2, 3, 6, 7, 10, 11, 14, 15, 18, 19, 22, 23>>[sid + 1]
            want == IF sid \in {0, 1, 2, 4, 6, 8, 10, 12}
                    THEN (IF page <= 127 THEN base ELSE base + 1)
                    ELSE (IF page <= 63 THEN base
                          ELSE IF page <= 127 THEN base + 1 ELSE base + 2)
            Sel(t) == /\ t.backsid = want
                      /\ t.page = page % 64
                      /\ t.reg = ev.arg[3]
                      /\ t.backsid \in 0 .. 31
        IN  /\ ev.io # <<>>
            /\ ev.io[1][1] = "w" /\ ev.io[1][2] = <<"sds", 0>>
            /\ Sel(Selected(ev.io[1][3]))
            /\ rtsds_931x_backsid(sid, page) = want

\* page 130 of the odd lane 13 has been read, on the third background
\* SerDes of the lane
LastLaneThirdRange ==
    /\ ev.kind = "backend" /\ ev.op = "read" /\ family = "931x"
    /\ ev.arg = <<13, 130, 0>>
    /\ Selected(ev.io[1][3]) = [backsid |-> 25, page |-> 2, reg |-> 0]

\* C40: on RTL931x two different lanes never select the same register: the
\* background SerDes, page and register that the command of a read of one
\* lane selects are selected by no page of any other lane.
LanesShareNoRegister ==
    (ev.kind = "backend" /\ ev.op = "read" /\ family = "931x" /\ ev.io # <<>>) =>
        \A sid \in (0 .. RTSDS_931X_MAX_SDS) \ {ev.arg[1]},
           page \in 0 .. RTSDS_931X_MAX_PAGE :
            Selected(BusCmd(rtsds_931x_backsid(sid, page), And(page, 63),
                            ev.arg[3], 1))
                # Selected(ev.io[1][3])

\* C35: the lane table has a record of its own for every lane 0 .. max_sds
\* of the family: an accepted binding, which stores into the records of its
\* lane and of the companion, uses indexes below the capacity of the table
\* and leaves the script table as it was.
LaneRecordsWithinTable ==
    (ev.kind = "xlate" /\ ev.ret = 0) =>
        /\ ev.arg[1] < SdsCapacity
        /\ ev.arg[2] < SdsCapacity
        /\ sequence = ev.old.seqs

\* C36: when power_off returns 0 on a managed lane, the stored mode of the
\* lane is PHY_INTERFACE_MODE_NA, the symbol of the off code that the
\* operation has written to the hardware.
PowerOffStoresOff ==
    (Returned({"power_off"}) /\ Managed(ev.sid) /\ ev.ret = 0) =>
        sds[ev.sid].mode = PHY_INTERFACE_MODE_NA


\* C37: on the families that reset by cycling the mode, reset preserves the
\* hardware mode of the lane: when the backend reset of a lane has returned,
\* get_mode of the lane reads the code it read before the reset, and a lane
\* that read the off code before the reset has had no hardware word written
\* (the command word of a register read apart).
ResetPreservesMode ==
    (ev.kind = "backend" /\ ev.op = "reset" /\ Indirect(family)) =>
        LET modeoff == Conf(family).mode_map[PHY_INTERFACE_MODE_NA]
            Kept(old) ==
                /\ conf_get_mode(Mach, ev.sid).ret = old
                /\ old = modeoff =>
                       \A i \in DOMAIN ev.io :
                           ev.io[i][1] = "w" =>
                               ev.io[i][2] = <<"sds", 0>> /\ 1 \notin ev.io[i][3]
        IN  Kept(conf_get_mode(Before, ev.sid).ret)


\* C38: the backend set_mode of a lane changes the mode and submode fields
\* of that lane only: when set_mode of lane A has returned 0, get_mode of
\* every other lane B of the family reads the code it read before, and on the
\* RTL930x the submode registers are accessed for lanes 2..9 only.
SetModeKeepsOtherLanes ==
    (ev.kind = "backend" /\ ev.op = "set_mode" /\ ev.ret = 0) =>
        /\ \A B \in (0 .. Conf(family).max_sds) \ {ev.sid} :
               conf_get_mode(Mach, B).ret = conf_get_mode(Before, B).ret
        /\ (family = "930x" /\ ev.sid \notin 2 .. 9) =>
               \A i \in DOMAIN ev.io :
                   ev.io[i][2] \notin {RTSDS_930X_SDS_SUBMODE_CTRL0,
                                       RTSDS_930X_SDS_SUBMODE_CTRL1}


\* C39: reverse lookup never returns a symbol that the table of the family
\* leaves unmapped: for every integer code, the codes without the tag bit
\* included, the result is the no-match value or a symbol whose table entry
\* is a tagged code equal to the code looked up.
LookupReturnsMappedSymbol ==
    ev.kind = "lookup" =>
        LET Mapped(map, hwmode) ==
                \/ ev.ret = PHY_INTERFACE_MODE_MAX
                \/ /\ ev.ret \in DOMAIN map
                   /\ map[ev.ret] = hwmode
                   /\ 16 \in Bits(map[ev.ret])
        IN  Mapped(Conf(ev.arg[1]).mode_map, ev.arg[2])

====
